---- MODULE Spec2Model ----
(***************************************************************************)
(* Budget tracker: the purchase allocation of ConstructionTracker          *)
(* (handleAddPurchase behind the PurchaseForm), the relational store of    *)
(* the migration (column types, foreign keys) and the two report           *)
(* functions get_unit_costs and get_category_spending.                     *)
(*                                                                         *)
(* Money stored in a DECIMAL(12,2) column is an integer number of cents,   *)
(* a quantity stored in DECIMAL(10,3) an integer number of thousandths,    *)
(* a percentage with two decimals an integer number of hundredths of a     *)
(* percent.  A JavaScript number is an exact fraction [n, d]: the form     *)
(* inputs are decimals and the store parses the decimal text of the JSON   *)
(* request, which for the inputs below is the exact quotient.              *)
(***************************************************************************)
EXTENDS Integers, Sequences, FiniteSets, TLC

\* ------------------------------------------------------------------ bounds
\* accepted purchase submissions per behaviour of Spec
MaxSubmits == 1
\* purchase rows per behaviour of SpecDB
MaxRows == 2
\* the purchases table of SpecStore holds at most this many rows
MaxStoreRows == 1
\* the purchases table SpecExport starts from holds at most this many rows
MaxExportRows == 2
\* runs of loadProjectData that can be under way at once
MaxLoads == 3
\* of these, the runs that can be started again once the project is loaded
MaxReloads == 1

\* ------------------------------------------------------- identifiers, inputs
NULL == "null"
\* the project the component has loaded
CurrentProject == "P1"
\* UUIDs the store hands out to units and partners
UnitIds == <<"u1", "u2", "u3">>
PartnerIds == <<"pt1">>
Categories == {"Kitchen", "Other"}
Dates == {"2025-08-14"}
\* the quantity field, in steps of 0.01: 0 and 0.01
Quantities == {0, 1}
\* the unit price field, in steps of 0.01: -0.01, 0, 0.01 and 100.00
Prices == {-1, 0, 1, 10000}
\* the signed-in user
CurrentUser == "alice"
\* the category list of the loaded project: the six names with a budget
\* fraction of their own and one without
ProjectCategories ==
    <<"Plumbing", "Bathroom", "Bedroom", "Kitchen", "Flooring", "Electrical",
      "Other">>
\* the name and the budget field of the unit form, the budget in cents
UnitNames == {"Apt"}
UnitBudgets == {300}

VARIABLES
    partners,        \* table public.partners: sequence of rows, insertion order
    units,           \* table public.units
    purchases,       \* table public.purchases
    partnersState,   \* ConstructionTracker state `partners`
    unitsState,      \* ConstructionTracker state `units`
    purchasesState,  \* ConstructionTracker state `purchases`
    sub,             \* the handleAddPurchase call in flight, or the last one
    submits,         \* accepted submissions so far
    formErrors,      \* PurchaseForm formState.errors: failing field -> its value
    unitCosts,       \* ReportsTab state `unitCosts`
    categorySpending, \* ReportsTab state `categorySpending`
    report,          \* the ReportsTab: mounted or not, its fetchReportData call
    projects,        \* table public.projects
    currentProject,  \* ConstructionTracker state `currentProject`
    stmt,            \* the statement the store ran last: who ran it, its result
    sync,            \* one run of the sync-google-sheets function
    workbook,        \* the workbook exportToExcel wrote last
    settings,        \* the ProjectSettingsForm: open or not, its `categories`
    loads,           \* the runs of loadProjectData: where each one stands
    purchaseForm     \* the PurchaseForm: open or not, its unit selection

vars == <<partners, units, purchases, partnersState, unitsState, purchasesState,
          sub, submits, formErrors, unitCosts, categorySpending, report,
          projects, currentProject, stmt, sync, workbook, settings, loads,
          purchaseForm>>

\* the state of the dialogs
formVars == <<settings, loads, purchaseForm>>

\* the projects table, the project the component has loaded, and the last
\* statement of a client that talks to the store directly
projectVars == <<projects, currentProject, stmt, sync, workbook, formVars>>

\* ------------------------------------------------------------- arithmetic
\* a JavaScript number as an exact fraction
Num(n, d) == [n |-> n, d |-> d]
NumMul(a, b) == Num(a.n * b.n, a.d * b.d)
NumDivInt(a, k) == Num(a.n, a.d * k)

Pow10(k) == IF k = 2 THEN 100 ELSE IF k = 3 THEN 1000 ELSE 1

\* a / b rounded to the nearest integer, ties away from zero (b > 0)
RoundDiv(a, b) ==
    IF a >= 0 THEN (2 * a + b) \div (2 * b)
    ELSE 0 - ((2 * (0 - a) + b) \div (2 * b))

\* the store's cast of a number to DECIMAL(p, scale), as scaled integer
ToDecimal(x, scale) == RoundDiv(x.n * Pow10(scale), x.d)

\* sequences over S without repetition, of length 0..Cardinality(S)
RECURSIVE Arrangements(_)
Arrangements(S) ==
    {<<>>} \cup UNION {{<<x>> \o t : t \in Arrangements(S \ {x})} : x \in S}

\* ------------------------------------------------------------ the store
\* INSERT INTO public.projects ... RETURNING *: total_budget in cents
ProjectRow(id, user, total_budget, categories) ==
    [id |-> id, user_id |-> user, total_budget |-> total_budget,
     categories |-> categories]

\* INSERT INTO public.partners ... RETURNING *
PartnerRow(id, project) == [id |-> id, project_id |-> project]

\* INSERT INTO public.units ... RETURNING *
UnitRow(id, project, name, budget, partner) ==
    [id |-> id, project_id |-> project, name |-> name, budget |-> budget,
     partner_id |-> partner]

\* INSERT INTO public.purchases ... RETURNING *: the columns' types round
\* quantity to 3 decimals, unit_price and total_cost to 2
PurchaseRow(id, p) ==
    [id |-> id, project_id |-> p.project_id, unit_id |-> p.unit_id,
     partner_id |-> p.partner_id, date |-> p.date, category |-> p.category,
     quantity |-> ToDecimal(p.quantity, 3),
     unit_price |-> ToDecimal(p.unit_price, 2),
     total_cost |-> ToDecimal(p.total_cost, 2)]

\* gen_random_uuid() of the next purchase row
NextPurchaseId == Len(purchases) + 1

Ids(rows) == {rows[i].id : i \in DOMAIN rows}

\* ------------------------------------------------------ the purchase form
\* purchaseSchema with quantity: z.number().min(0)
purchaseSchema_QuantityMinZero(data) ==
    {f \in {"category", "quantity", "unitPrice", "units"} :
        \/ f = "category" /\ data.category = ""
        \/ f = "quantity" /\ data.quantity < 0
        \/ f = "unitPrice" /\ data.unitPrice < 1
        \/ f = "units" /\ Len(data.units) < 1}

\* purchaseSchema with quantity: z.number().gt(0.01)
purchaseSchema_QuantityAboveCent(data) ==
    {f \in {"category", "quantity", "unitPrice", "units"} :
        \/ f = "category" /\ data.category = ""
        \/ f = "quantity" /\ data.quantity <= 1
        \/ f = "unitPrice" /\ data.unitPrice < 1
        \/ f = "units" /\ Len(data.units) < 1}

\* purchaseSchema: the fields of the form data that fail validation
purchaseSchema(data) ==
    {f \in {"category", "quantity", "unitPrice", "units"} :
        \/ f = "category" /\ data.category = ""
        \/ f = "quantity" /\ data.quantity < 1
        \/ f = "unitPrice" /\ data.unitPrice < 1
        \/ f = "units" /\ Len(data.units) < 1}

\* the category and the partner select of the form: one category with the
\* default "no partner", the other with a partner of the list
Selects ==
    {[category |-> "Kitchen", partner |-> NULL]}
        \cup {[category |-> "Other", partner |-> id] : id \in Ids(partnersState)}

\* what the user can have entered in the form
FormData ==
    {[date |-> d, category |-> sel.category, quantity |-> q, unitPrice |-> p,
      units |-> us, partner |-> sel.partner, distributeEvenly |-> de] :
        d \in Dates, sel \in Selects, q \in Quantities, p \in Prices,
        us \in Arrangements(Ids(unitsState)), de \in BOOLEAN}

\* PurchaseForm.handleSubmit: the object handed to onSubmit
SubmittedPurchase(data) ==
    [date |-> data.date, category |-> data.category,
     quantity |-> Num(data.quantity, 100),
     unit_price |-> Num(data.unitPrice, 100),
     units |-> data.units, partner_id |-> data.partner,
     distributeEvenly |-> data.distributeEvenly]

\* ----------------------------------------------------- handleAddPurchase
totalCost(purchaseData) == NumMul(purchaseData.quantity, purchaseData.unit_price)

\* the argument of one createPurchase call
Payload(purchaseData, unitId, quantity, cost) ==
    [project_id |-> CurrentProject, unit_id |-> unitId,
     partner_id |-> purchaseData.partner_id, date |-> purchaseData.date,
     category |-> purchaseData.category, quantity |-> quantity,
     unit_price |-> purchaseData.unit_price, total_cost |-> cost]

\* Payloads with unit_id: purchaseData.units[0] in the even-distribution branch
Payloads_FirstUnitOnly(purchaseData) ==
    LET n == Len(purchaseData.units) IN
    IF purchaseData.distributeEvenly /\ n > 1
    THEN [i \in 1..n |->
            Payload(purchaseData, purchaseData.units[1],
                    NumDivInt(purchaseData.quantity, n),
                    NumDivInt(totalCost(purchaseData), n))]
    ELSE <<Payload(purchaseData, purchaseData.units[1],
                   purchaseData.quantity, totalCost(purchaseData))>>

\* Payloads with the branch taken on units.length > 1 alone
Payloads_IgnoreFlag(purchaseData) ==
    LET n == Len(purchaseData.units) IN
    IF n > 1
    THEN [i \in 1..n |->
            Payload(purchaseData, purchaseData.units[i],
                    NumDivInt(purchaseData.quantity, n),
                    NumDivInt(totalCost(purchaseData), n))]
    ELSE <<Payload(purchaseData, purchaseData.units[1],
                   purchaseData.quantity, totalCost(purchaseData))>>

\* the createPurchase calls handleAddPurchase issues, in order
Payloads(purchaseData) ==
    LET n == Len(purchaseData.units) IN
    IF purchaseData.distributeEvenly /\ n > 1
    THEN [i \in 1..n |->
            Payload(purchaseData, purchaseData.units[i],
                    NumDivInt(purchaseData.quantity, n),
                    NumDivInt(totalCost(purchaseData), n))]
    ELSE <<Payload(purchaseData, purchaseData.units[1],
                   purchaseData.quantity, totalCost(purchaseData))>>

NoErrors == [f \in {} |-> 0]
Idle == [phase |-> "idle", req |-> NULL, payloads |-> <<>>,
         status |-> <<>>, rows |-> <<>>]

\* no statement has been run yet
NoStatement ==
    [user |-> NULL, op |-> "none", table |-> NULL, rows |-> <<>>, error |-> FALSE]

\* the result of a statement
Result(user, op, table, rows) ==
    [user |-> user, op |-> op, table |-> table, rows |-> rows, error |-> FALSE]
\* the statement is refused by a policy's WITH CHECK or a foreign key
Refused(user, op, table) ==
    [user |-> user, op |-> op, table |-> table, rows |-> <<>>, error |-> TRUE]

\* the sync function has not been called
NoSync == [phase |-> "idle", token |-> NULL, tasks |-> <<>>, failed |-> {},
           response |-> NULL]

\* nothing has been exported
NoWorkbook == [written |-> FALSE, Units |-> <<>>, Summary |-> <<>>]

\* the ProjectSettingsForm is closed
NoSettings == [open |-> FALSE, categories |-> <<>>]

\* one run of loadProjectData that has not started
IdleLoad == [phase |-> "idle", project |-> NULL, data |-> <<>>]
\* no loadProjectData has run
NoLoads == [k \in 1..MaxLoads |-> IdleLoad]

\* the PurchaseForm as it is mounted: closed, nothing selected
NoPurchaseForm ==
    [open |-> FALSE, selectAllUnits |-> FALSE, selectedUnits |-> <<>>,
     units |-> <<>>]

\* the ReportsTab is not mounted
Closed == [phase |-> "closed", project |-> NULL, unitCostData |-> <<>>,
           categorySpendingData |-> <<>>]

Settled == \A i \in DOMAIN sub.status : sub.status[i] \in {"ok", "error"}

\* the form is submitted while no earlier submission is in flight
CanSubmit == Settled /\ submits < MaxSubmits

Init ==
    /\ partners = <<PartnerRow(PartnerIds[1], CurrentProject)>>
    /\ units = <<>>
    /\ purchases = <<>>
    /\ partnersState = partners
    /\ unitsState = <<>>
    /\ purchasesState = <<>>
    /\ sub = Idle
    /\ submits = 0
    /\ formErrors = NoErrors
    /\ unitCosts = <<>>
    /\ categorySpending = <<>>
    /\ report = Closed
    /\ projects = <<ProjectRow(CurrentProject, CurrentUser, 500, ProjectCategories)>>
    /\ currentProject = projects[1]
    /\ stmt = NoStatement
    /\ sync = NoSync
    /\ workbook = NoWorkbook
    /\ settings = NoSettings
    /\ loads = NoLoads
    /\ purchaseForm = NoPurchaseForm

\* unitSchema: the fields of the unit form that fail validation (budget in
\* cents)
unitSchema(data) ==
    {f \in {"name", "budget"} :
        \/ f = "name" /\ data.name = ""
        \/ f = "budget" /\ data.budget < 1}

\* UnitForm.handleSubmit: the object handed to onSubmit; the partner field
\* starts as '' and 'No Partner' selects '' again
SubmittedUnit(data) ==
    [name |-> data.name, budget |-> data.budget, partner_id |-> data.partner]

\* the uuid column partner_id takes a uuid of an existing partner or NULL
UuidOrNull(value) == value = NULL \/ value \in Ids(partners)

\* handleAddUnit: createUnit, then the new row is appended to the list; when
\* createUnit throws (partner_id is no uuid) the catch block shows the error
\* and nothing is added
handleAddUnit(name, budget, partner) ==
    /\ formErrors = NoErrors
    /\ Len(units) < Len(UnitIds)
    /\ LET newUnit == UnitRow(UnitIds[Len(units) + 1], CurrentProject, name,
                              budget, partner) IN
        IF UuidOrNull(partner)
        THEN /\ units' = Append(units, newUnit)
             /\ unitsState' = Append(unitsState, newUnit)
             /\ stmt' = Result(CurrentUser, "insert", "units", <<newUnit>>)
        ELSE /\ stmt' = Refused(CurrentUser, "insert", "units")
             /\ UNCHANGED <<units, unitsState>>
    /\ UNCHANGED <<partners, purchases, partnersState, purchasesState, sub,
                   submits, formErrors, unitCosts, categorySpending, report,
                   projects, currentProject, sync, workbook, formVars>>

\* form.handleSubmit(handleSubmit) with invalid data: the errors are shown,
\* onSubmit is not called
SubmitRejected(data) ==
    /\ purchaseSchema(data) # {}
    /\ formErrors' = [f \in purchaseSchema(data) |-> data[f]]
    /\ UNCHANGED <<partners, units, purchases, partnersState, unitsState,
                   purchasesState, sub, submits, unitCosts,
                   categorySpending, report>>
    /\ UNCHANGED projectVars

\* form.handleSubmit(handleSubmit) with valid data: onSubmit runs
\* handleAddPurchase up to its await, every createPurchase request is sent
SubmitAccepted(data) ==
    /\ purchaseSchema(data) = {}
    /\ LET purchaseData == SubmittedPurchase(data)
           calls == Payloads(purchaseData) IN
        sub' = [phase |-> "running", req |-> purchaseData, payloads |-> calls,
                status |-> [i \in DOMAIN calls |-> "pending"],
                rows |-> [i \in DOMAIN calls |-> NULL]]
    /\ submits' = submits + 1
    /\ formErrors' = NoErrors
    /\ UNCHANGED <<partners, units, purchases, partnersState, unitsState,
                   purchasesState, unitCosts, categorySpending, report>>
    /\ UNCHANGED projectVars

\* every resolved createPurchase puts its row in the list at once
CreatePurchaseResolves_AppendEach(i) ==
    /\ i \in DOMAIN sub.status
    /\ sub.status[i] = "pending"
    /\ LET row == PurchaseRow(NextPurchaseId, sub.payloads[i])
           status == [sub.status EXCEPT ![i] = "ok"]
           rows == [sub.rows EXCEPT ![i] = row]
           all == \A j \in DOMAIN status : status[j] = "ok" IN
        /\ purchases' = Append(purchases, row)
        /\ purchasesState' = <<row>> \o purchasesState
        /\ sub' = [sub EXCEPT !.status = status, !.rows = rows,
                              !.phase = IF @ = "running" /\ all THEN "done" ELSE @]
    /\ UNCHANGED <<partners, units, partnersState, unitsState, submits,
                   formErrors, unitCosts, categorySpending, report>>
    /\ UNCHANGED projectVars

\* the i-th createPurchase resolves: the store has inserted the row and
\* returned it; when it is the last one, Promise.all resolves and the new
\* purchases are put in front of the list
CreatePurchaseResolves(i) ==
    /\ i \in DOMAIN sub.status
    /\ sub.status[i] = "pending"
    /\ LET row == PurchaseRow(NextPurchaseId, sub.payloads[i])
           status == [sub.status EXCEPT ![i] = "ok"]
           rows == [sub.rows EXCEPT ![i] = row]
           all == \A j \in DOMAIN status : status[j] = "ok" IN
        /\ purchases' = Append(purchases, row)
        /\ IF sub.phase = "running" /\ all
           THEN /\ sub' = [sub EXCEPT !.status = status, !.rows = rows,
                                      !.phase = "done"]
                /\ purchasesState' = rows \o purchasesState
           ELSE /\ sub' = [sub EXCEPT !.status = status, !.rows = rows]
                /\ UNCHANGED purchasesState
    /\ UNCHANGED <<partners, units, partnersState, unitsState, submits,
                   formErrors, unitCosts, categorySpending, report>>
    /\ UNCHANGED projectVars

\* the i-th createPurchase throws; the first rejection ends handleAddPurchase
\* in its catch block
CreatePurchaseRejects(i) ==
    /\ i \in DOMAIN sub.status
    /\ sub.status[i] = "pending"
    /\ sub' = [sub EXCEPT !.status[i] = "error",
                          !.phase = IF @ = "running" THEN "failed" ELSE @]
    /\ UNCHANGED <<partners, units, purchases, partnersState, unitsState,
                   purchasesState, submits, formErrors, unitCosts,
                   categorySpending, report>>
    /\ UNCHANGED projectVars

Next ==
    \/ \E name \in UnitNames, budget \in UnitBudgets, partner \in Ids(partnersState) :
        handleAddUnit(name, budget, partner)
    \/ CanSubmit /\ formErrors = NoErrors /\ \E data \in FormData : SubmitRejected(data)
    \/ CanSubmit /\ \E data \in FormData : SubmitAccepted(data)
    \/ \E i \in 1..Len(UnitIds) : CreatePurchaseResolves(i)
    \/ \E i \in 1..Len(UnitIds) : CreatePurchaseRejects(i)

Spec == Init /\ [][Next]_vars

\* ----------------------------------------------------------- the unit form
\* what the user can have entered in the unit form: a budget in cents, the
\* partner selected ('' for none)
UnitFormData ==
    {[name |-> n, budget |-> b, partner |-> pt] :
        n \in {"Apt", "B"}, b \in {0, 1, 300}, pt \in {""} \cup Ids(partnersState)}

\* form.handleSubmit(handleSubmit) of the unit form with valid data
UnitFormSubmit(data) ==
    /\ unitSchema(data) = {}
    /\ LET unitData == SubmittedUnit(data) IN
        handleAddUnit(unitData.name, unitData.budget, unitData.partner_id)

NextUnits == \E data \in UnitFormData : UnitFormSubmit(data)

SpecUnits == Init /\ [][NextUnits]_vars

\* ------------------------------------------------- the project settings form
\* what can be typed in the category inputs of the settings form
TypedTexts == {"", " ", "Kitchen", " Kitchen", "Other ", "Tile"}

\* String.prototype.trim on the texts that can be typed
trim(text) ==
    CASE text = " " -> ""
      [] text = " Kitchen" -> "Kitchen"
      [] text = "Other " -> "Other"
      [] OTHER -> text

\* categories.includes(label)
includes(categories, label) == \E i \in DOMAIN categories : categories[i] = label

\* the effect of ProjectSettingsForm: while the dialog is open, each new
\* currentSettings object puts the project's categories back in the list
SettingsEffect ==
    /\ settings.open
    /\ settings' = [settings EXCEPT !.categories = currentProject.categories]
    /\ UNCHANGED <<partners, units, purchases, partnersState, unitsState,
                   purchasesState, sub, submits, formErrors, unitCosts,
                   categorySpending, report, projects, currentProject, stmt,
                   sync, workbook, loads, purchaseForm>>

\* setShowProjectSettings(true): the dialog opens and the effect runs
OpenProjectSettings ==
    /\ ~settings.open
    /\ settings' = [open |-> TRUE, categories |-> currentProject.categories]
    /\ UNCHANGED <<partners, units, purchases, partnersState, unitsState,
                   purchasesState, sub, submits, formErrors, unitCosts,
                   categorySpending, report, projects, currentProject, stmt,
                   sync, workbook, loads, purchaseForm>>

\* Cancel: onOpenChange(false)
CancelProjectSettings ==
    /\ settings.open
    /\ settings' = [settings EXCEPT !.open = FALSE]
    /\ UNCHANGED <<partners, units, purchases, partnersState, unitsState,
                   purchasesState, sub, submits, formErrors, unitCosts,
                   categorySpending, report, projects, currentProject, stmt,
                   sync, workbook, loads, purchaseForm>>

\* handleAddCategory without the includes test
handleAddCategory_NoIncludes(newCategory) ==
    /\ settings.open
    /\ trim(newCategory) # ""
    /\ settings' = [settings EXCEPT !.categories = Append(@, trim(newCategory))]
    /\ UNCHANGED <<partners, units, purchases, partnersState, unitsState,
                   purchasesState, sub, submits, formErrors, unitCosts,
                   categorySpending, report, projects, currentProject, stmt,
                   sync, workbook, loads, purchaseForm>>

\* handleAddCategory, newCategory being the text in the input
handleAddCategory(newCategory) ==
    /\ settings.open
    /\ trim(newCategory) # "" /\ ~includes(settings.categories, trim(newCategory))
    /\ settings' = [settings EXCEPT !.categories = Append(@, trim(newCategory))]
    /\ UNCHANGED <<partners, units, purchases, partnersState, unitsState,
                   purchasesState, sub, submits, formErrors, unitCosts,
                   categorySpending, report, projects, currentProject, stmt,
                   sync, workbook, loads, purchaseForm>>

\* handleDeleteCategory: categories.filter((_, i) => i !== index)
handleDeleteCategory(index) ==
    /\ settings.open
    /\ index \in DOMAIN settings.categories
    /\ settings' = [settings EXCEPT !.categories =
            [i \in 1..(Len(@) - 1) |-> IF i < index THEN @[i] ELSE @[i + 1]]]
    /\ UNCHANGED <<partners, units, purchases, partnersState, unitsState,
                   purchasesState, sub, submits, formErrors, unitCosts,
                   categorySpending, report, projects, currentProject, stmt,
                   sync, workbook, loads, purchaseForm>>

\* handleEditCategory of the row being edited; a blank or known label leaves
\* the list as it is
handleEditCategory(index, newValue) ==
    /\ settings.open
    /\ index \in DOMAIN settings.categories
    /\ trim(newValue) # "" /\ ~includes(settings.categories, trim(newValue))
    /\ settings' = [settings EXCEPT !.categories[index] = trim(newValue)]
    /\ UNCHANGED <<partners, units, purchases, partnersState, unitsState,
                   purchasesState, sub, submits, formErrors, unitCosts,
                   categorySpending, report, projects, currentProject, stmt,
                   sync, workbook, loads, purchaseForm>>

\* updateProject: update(updates).eq('id', id).select().single()
updateProject(id, updates) ==
    [i \in DOMAIN projects |->
        IF projects[i].id = id
        THEN [f \in DOMAIN projects[i] |->
                IF f \in DOMAIN updates THEN updates[f] ELSE projects[i][f]]
        ELSE projects[i]]

\* Save Settings: handleSubmit hands the list to handleUpdateProjectSettings
\* and closes the dialog; updateProject returns the updated row, which
\* becomes the current project, or throws
handleUpdateProjectSettings(ok) ==
    /\ settings.open
    /\ settings' = [settings EXCEPT !.open = FALSE]
    /\ IF ok
       THEN LET rows == updateProject(currentProject.id,
                            [total_budget |-> currentProject.total_budget,
                             categories |-> settings.categories])
                updatedProject ==
                    CHOOSE row \in {rows[i] : i \in DOMAIN rows} :
                        row.id = currentProject.id IN
            /\ projects' = rows
            /\ currentProject' = updatedProject
            /\ stmt' = Result(CurrentUser, "update", "projects", <<updatedProject>>)
       ELSE /\ stmt' = Refused(CurrentUser, "update", "projects")
            /\ UNCHANGED <<projects, currentProject>>
    /\ UNCHANGED <<partners, units, purchases, partnersState, unitsState,
                   purchasesState, sub, submits, formErrors, unitCosts,
                   categorySpending, report, sync, workbook, loads, purchaseForm>>

\* what the purchase form can hold: its category select offers the
\* categories of the current project
SettingsFormData ==
    {[date |-> d, category |-> currentProject.categories[c], quantity |-> 100,
      unitPrice |-> 700, units |-> <<UnitIds[1]>>, partner |-> NULL,
      distributeEvenly |-> FALSE] :
        d \in Dates, c \in DOMAIN currentProject.categories}

\* a project with two categories and one unit
InitSettings ==
    /\ partners = <<>>
    /\ units = <<UnitRow(UnitIds[1], CurrentProject, "Apt", 300, NULL)>>
    /\ purchases = <<>>
    /\ partnersState = <<>>
    /\ unitsState = units
    /\ purchasesState = <<>>
    /\ sub = Idle
    /\ submits = 0
    /\ formErrors = NoErrors
    /\ unitCosts = <<>>
    /\ categorySpending = <<>>
    /\ report = Closed
    /\ projects = <<ProjectRow(CurrentProject, CurrentUser, 500, <<"Kitchen", "Other">>)>>
    /\ currentProject = projects[1]
    /\ stmt = NoStatement
    /\ sync = NoSync
    /\ workbook = NoWorkbook
    /\ settings = NoSettings
    /\ loads = NoLoads
    /\ purchaseForm = NoPurchaseForm

NextSettings ==
    \/ OpenProjectSettings
    \/ SettingsEffect
    \/ CancelProjectSettings
    \/ \E text \in TypedTexts : handleAddCategory(text)
    \/ \E index \in 1..3 : handleDeleteCategory(index)
    \/ \E index \in 1..3, text \in TypedTexts : handleEditCategory(index, text)
    \/ \E ok \in BOOLEAN : handleUpdateProjectSettings(ok)
    \/ CanSubmit /\ \E data \in SettingsFormData : SubmitAccepted(data)
    \/ CreatePurchaseResolves(1)
    \/ CreatePurchaseRejects(1)

SpecSettings == InitSettings /\ [][NextSettings]_vars

\* ----------------------------------------------- the budget categories
\* the fraction of the total budget a category gets, in percent
BudgetFraction(category) ==
    IF category = "Bathroom" THEN 15
    ELSE IF category = "Kitchen" THEN 15
    ELSE IF category = "Bedroom" THEN 12
    ELSE IF category = "Plumbing" THEN 10
    ELSE IF category = "Electrical" THEN 8
    ELSE IF category = "Flooring" THEN 10
    ELSE 5

\* purchases.filter(...).reduce((sum, p) => sum + p.total_cost, 0), in cents
RECURSIVE Reduce(_, _)
Reduce(rows, sum) ==
    IF rows = <<>> THEN sum ELSE Reduce(Tail(rows), sum + Head(rows).total_cost)

\* budgetCategories with remaining: Math.max(0, budgetAmount - spentAmount)
budgetCategories_Clamped ==
    [i \in DOMAIN currentProject.categories |->
        LET category == currentProject.categories[i]
            spentAmount ==
                Reduce(SelectSeq(purchasesState, LAMBDA p : p.category = category), 0)
            budgetAmount == currentProject.total_budget * BudgetFraction(category) IN
        [name |-> category, budgetAmount |-> budgetAmount,
         spentAmount |-> spentAmount,
         remaining |-> IF budgetAmount - 100 * spentAmount < 0 THEN 0
                       ELSE budgetAmount - 100 * spentAmount]]

\* budgetCategories: one entry per category of the project. spentAmount is in
\* cents, budgetAmount and remaining in hundredths of a cent
budgetCategories ==
    [i \in DOMAIN currentProject.categories |->
        LET category == currentProject.categories[i]
            spentAmount ==
                Reduce(SelectSeq(purchasesState, LAMBDA p : p.category = category), 0)
            budgetAmount == currentProject.total_budget * BudgetFraction(category) IN
        [name |-> category, budgetAmount |-> budgetAmount,
         spentAmount |-> spentAmount,
         remaining |-> budgetAmount - 100 * spentAmount]]

\* ------------------------------------------------- the report functions
\* ORDER BY u.name: the collation's order of the unit names in use
NameOrder == <<"A", "Apt", "B">>
NameRank(name) == CHOOSE i \in DOMAIN NameOrder : NameOrder[i] = name

\* the arrangements of all the rows of S
Orderings(S) == {s \in Arrangements(S) : Len(s) = Cardinality(S)}

\* ORDER BY u.name: the orders in which the query may return the rows S,
\* those in which no row precedes one that sorts before it
OrderByName(S) ==
    {s \in Orderings(S) :
        \A i, j \in DOMAIN s :
            i < j => NameRank(s[i].unit_name) <= NameRank(s[j].unit_name)}

\* ORDER BY SUM(p.total_cost) DESC, likewise
OrderByTotalDesc(S) ==
    {s \in Orderings(S) :
        \A i, j \in DOMAIN s : i < j => s[i].total_spent >= s[j].total_spent}

\* SUM(p.total_cost) over the purchases with indices J: NULL, here <<>>, when
\* there is no row to add
RECURSIVE SumTotalCost(_)
SumTotalCost(J) ==
    IF J = {} THEN <<>>
    ELSE LET j == CHOOSE k \in J : TRUE
             rest == SumTotalCost(J \ {j}) IN
         <<purchases[j].total_cost + (IF rest = <<>> THEN 0 ELSE rest[1])>>

COALESCE(x, d) == IF x = <<>> THEN d ELSE x[1]

\* get_unit_costs with JOIN in place of LEFT JOIN
get_unit_costs_InnerJoin(project_uuid) ==
    LET joined == {<<i, j>> \in (DOMAIN units) \X (DOMAIN purchases) :
                        units[i].id = purchases[j].unit_id}
        selected == {r \in joined : units[r[1]].project_id = project_uuid}
        groups == {r[1] : r \in selected}
        actual(i) == COALESCE(SumTotalCost({r[2] : r \in {q \in selected : q[1] = i}}), 0)
        row(i) ==
            [unit_id |-> units[i].id, unit_name |-> units[i].name,
             budget |-> units[i].budget, actual_cost |-> actual(i),
             cost_percentage |->
                IF units[i].budget > 0
                THEN RoundDiv(actual(i) * 10000, units[i].budget)
                ELSE 0] IN
    OrderByName({row(i) : i \in groups})

\* get_unit_costs with TRUNC(..., 2) in place of ROUND(..., 2)
get_unit_costs_Trunc(project_uuid) ==
    LET matched == {<<i, j>> \in (DOMAIN units) \X (DOMAIN purchases) :
                        units[i].id = purchases[j].unit_id}
        joined == matched \cup
                  {<<i, 0>> : i \in {k \in DOMAIN units :
                                        \A r \in matched : r[1] # k}}
        selected == {r \in joined : units[r[1]].project_id = project_uuid}
        groups == {r[1] : r \in selected}
        actual(i) ==
            COALESCE(SumTotalCost({r[2] : r \in {q \in selected : q[1] = i}} \ {0}), 0)
        row(i) ==
            [unit_id |-> units[i].id, unit_name |-> units[i].name,
             budget |-> units[i].budget, actual_cost |-> actual(i),
             cost_percentage |->
                IF units[i].budget > 0
                THEN (actual(i) * 10000) \div units[i].budget
                ELSE 0] IN
    OrderByName({row(i) : i \in groups})

\* get_unit_costs(project_uuid): the row sequences the query may return.
\* units LEFT JOIN purchases ON u.id = p.unit_id gives a pair <<i, j>> for
\* every match and <<i, 0>> for a unit without one; WHERE keeps the units of
\* the project, GROUP BY collects the pairs of a unit
get_unit_costs(project_uuid) ==
    LET matched == {<<i, j>> \in (DOMAIN units) \X (DOMAIN purchases) :
                        units[i].id = purchases[j].unit_id}
        joined == matched \cup
                  {<<i, 0>> : i \in {k \in DOMAIN units :
                                        \A r \in matched : r[1] # k}}
        selected == {r \in joined : units[r[1]].project_id = project_uuid}
        groups == {r[1] : r \in selected}
        actual(i) ==
            COALESCE(SumTotalCost({r[2] : r \in {q \in selected : q[1] = i}} \ {0}), 0)
        row(i) ==
            [unit_id |-> units[i].id, unit_name |-> units[i].name,
             budget |-> units[i].budget, actual_cost |-> actual(i),
             cost_percentage |->
                IF units[i].budget > 0
                THEN RoundDiv(actual(i) * 10000, units[i].budget)
                ELSE 0] IN
    OrderByName({row(i) : i \in groups})

\* get_category_spending without its WHERE clause
get_category_spending_AllProjects(project_uuid) ==
    LET selected == DOMAIN purchases
        groups == {purchases[j].category : j \in selected}
        members(c) == {j \in selected : purchases[j].category = c}
        row(c) ==
            [category |-> c,
             total_spent |-> SumTotalCost(members(c))[1],
             purchase_count |-> Cardinality(members(c)),
             average_purchase |->
                RoundDiv(SumTotalCost(members(c))[1], Cardinality(members(c)))] IN
    OrderByTotalDesc({row(c) : c \in groups})

\* get_category_spending with AND p.unit_id IS NOT NULL in its WHERE clause
get_category_spending_AssignedOnly(project_uuid) ==
    LET selected == {j \in DOMAIN purchases :
                        /\ purchases[j].project_id = project_uuid
                        /\ purchases[j].unit_id # NULL}
        groups == {purchases[j].category : j \in selected}
        members(c) == {j \in selected : purchases[j].category = c}
        row(c) ==
            [category |-> c,
             total_spent |-> SumTotalCost(members(c))[1],
             purchase_count |-> Cardinality(members(c)),
             average_purchase |->
                RoundDiv(SumTotalCost(members(c))[1], Cardinality(members(c)))] IN
    OrderByTotalDesc({row(c) : c \in groups})

\* get_category_spending(project_uuid): the row sequences the query may
\* return; ORDER BY SUM(p.total_cost) DESC says nothing of equal sums
get_category_spending(project_uuid) ==
    LET selected == {j \in DOMAIN purchases :
                        purchases[j].project_id = project_uuid}
        groups == {purchases[j].category : j \in selected}
        members(c) == {j \in selected : purchases[j].category = c}
        row(c) ==
            [category |-> c,
             total_spent |-> SumTotalCost(members(c))[1],
             purchase_count |-> Cardinality(members(c)),
             average_purchase |->
                RoundDiv(SumTotalCost(members(c))[1], Cardinality(members(c)))] IN
    OrderByTotalDesc({row(c) : c \in groups})

\* ------------------------------------------------- the unit cost report
\* getBudgetStatusBadge with percentage < 90 for 'Warning'
getBudgetStatusBadge_Below90(percentage) ==
    IF percentage <= 7000 THEN "On Track"
    ELSE IF percentage < 9000 THEN "Warning"
    ELSE "Over Budget"

\* getBudgetStatusBadge: the label of the badge, the percentage in
\* hundredths of a percent
getBudgetStatusBadge(percentage) ==
    IF percentage <= 7000 THEN "On Track"
    ELSE IF percentage <= 9000 THEN "Warning"
    ELSE "Over Budget"

\* UnitCostReport: the badge shown in the row of every unit
UnitCostBadges ==
    [k \in DOMAIN unitCosts |-> getBudgetStatusBadge(unitCosts[k].cost_percentage)]

\* ---------------------------------------- the store and the reports tab
\* total_cost of the rows inserted directly, in cents
Costs == {7, 20}
\* projects a ReportsTab is opened for: one with units, one with nothing
ReportProjects == {"P1", "P3"}

\* the rows a client can ask createPurchase to insert: a purchase of a
\* project for one of its units or for none
PurchaseInputs ==
    {[project_id |-> pr, unit_id |-> u, partner_id |-> NULL, date |-> d,
      category |-> c, quantity |-> Num(1, 1), unit_price |-> Num(cost, 100),
      total_cost |-> Num(cost, 100)] :
        pr \in {"P1", "P2"}, u \in {NULL} \cup Ids(units), d \in Dates,
        c \in Categories, cost \in Costs}

InitDB ==
    /\ partners = <<>>
    /\ units = <<UnitRow(UnitIds[1], "P1", "B", 30, NULL),
                 UnitRow(UnitIds[2], "P1", "A", 0, NULL),
                 UnitRow(UnitIds[3], "P2", "A", 300, NULL)>>
    /\ purchases = <<>>
    /\ partnersState = <<>>
    /\ unitsState = <<>>
    /\ purchasesState = <<>>
    /\ sub = Idle
    /\ submits = 0
    /\ formErrors = NoErrors
    /\ unitCosts = <<>>
    /\ categorySpending = <<>>
    /\ report = Closed
    /\ projects = <<ProjectRow("P1", CurrentUser, 500, ProjectCategories),
                    ProjectRow("P2", CurrentUser, 500, ProjectCategories),
                    ProjectRow("P3", CurrentUser, 500, ProjectCategories)>>
    /\ currentProject = projects[1]
    /\ stmt = NoStatement
    /\ sync = NoSync
    /\ workbook = NoWorkbook
    /\ settings = NoSettings
    /\ loads = NoLoads
    /\ purchaseForm = NoPurchaseForm

\* createPurchase: insert(...).select().single()
createPurchase(purchase) ==
    /\ Len(purchases) < MaxRows
    /\ \A i \in DOMAIN units :
        units[i].id = purchase.unit_id => units[i].project_id = purchase.project_id
    /\ purchases' = Append(purchases, PurchaseRow(NextPurchaseId, purchase))
    /\ UNCHANGED <<partners, units, partnersState, unitsState, purchasesState,
                   sub, submits, formErrors, unitCosts, categorySpending, report>>
    /\ UNCHANGED projectVars

\* the reports tab is selected: ReportsTab mounts with empty lists and its
\* effect runs fetchReportData up to the await, both requests are sent
fetchReportData(projectId) ==
    /\ report.phase = "closed"
    /\ report' = [phase |-> "loading", project |-> projectId,
                  unitCostData |-> <<>>, categorySpendingData |-> <<>>]
    /\ UNCHANGED <<partners, units, purchases, partnersState, unitsState,
                   purchasesState, sub, submits, formErrors, unitCosts,
                   categorySpending>>
    /\ UNCHANGED projectVars

\* Promise.all resolves once both requests have: both lists are set
Resolved(r) ==
    IF r.phase = "loading" /\ r.unitCostData # <<>> /\ r.categorySpendingData # <<>>
    THEN /\ report' = [r EXCEPT !.phase = "done"]
         /\ unitCosts' = r.unitCostData[1]
         /\ categorySpending' = r.categorySpendingData[1]
    ELSE /\ report' = r
         /\ UNCHANGED <<unitCosts, categorySpending>>

\* getUnitCosts: the rpc returns its rows, data || []
getUnitCosts ==
    /\ report.phase \in {"loading", "failed"}
    /\ report.unitCostData = <<>>
    /\ \E data \in get_unit_costs(report.project) :
        Resolved([report EXCEPT !.unitCostData = <<data>>])
    /\ UNCHANGED <<partners, units, purchases, partnersState, unitsState,
                   purchasesState, sub, submits, formErrors>>
    /\ UNCHANGED projectVars

\* getCategorySpending: the rpc returns its rows, data || []
getCategorySpending ==
    /\ report.phase \in {"loading", "failed"}
    /\ report.categorySpendingData = <<>>
    /\ \E data \in get_category_spending(report.project) :
        Resolved([report EXCEPT !.categorySpendingData = <<data>>])
    /\ UNCHANGED <<partners, units, purchases, partnersState, unitsState,
                   purchasesState, sub, submits, formErrors>>
    /\ UNCHANGED projectVars

\* one of the two requests fails: Promise.all rejects, fetchReportData shows
\* the error toast and the lists stay as they are
ReportRequestFails ==
    /\ report.phase = "loading"
    /\ report' = [report EXCEPT !.phase = "failed"]
    /\ UNCHANGED <<partners, units, purchases, partnersState, unitsState,
                   purchasesState, sub, submits, formErrors, unitCosts,
                   categorySpending>>
    /\ UNCHANGED projectVars

\* another tab is selected: the ReportsTab unmounts and its state is gone
ReportsTabUnmount ==
    /\ report.phase \in {"done", "failed"}
    /\ report' = Closed
    /\ unitCosts' = <<>>
    /\ categorySpending' = <<>>
    /\ UNCHANGED <<partners, units, purchases, partnersState, unitsState,
                   purchasesState, sub, submits, formErrors>>
    /\ UNCHANGED projectVars

NextDB ==
    \/ \E purchase \in PurchaseInputs : createPurchase(purchase)
    \/ \E projectId \in ReportProjects : fetchReportData(projectId)
    \/ getUnitCosts
    \/ getCategorySpending
    \/ ReportRequestFails
    \/ ReportsTabUnmount

SpecDB == InitDB /\ [][NextDB]_vars

\* ------------------------------------ the numbers of the Excel export
\* A JavaScript number is an IEEE 754 binary64 value. A non-negative one is
\* written here [m |-> bits, e |-> exponent]: the value is m * 2^e, m a
\* binary numeral (most significant bit first) of at most Mantissa bits that
\* is empty for 0 and ends in 1 otherwise.
Mantissa == 53

Zeros(k) == [i \in 1..k |-> 0]

\* the numeral without leading zeros
Trim(b) ==
    IF \A i \in DOMAIN b : b[i] = 0 THEN <<>>
    ELSE SubSeq(b, CHOOSE i \in DOMAIN b :
                        b[i] = 1 /\ \A j \in 1..(i - 1) : b[j] = 0,
                Len(b))

\* numeral of a natural number, natural number of a numeral
RECURSIVE BitsOf(_)
BitsOf(n) == IF n = 0 THEN <<>> ELSE Append(BitsOf(n \div 2), n % 2)

RECURSIVE NatOf(_)
NatOf(b) ==
    IF b = <<>> THEN 0 ELSE 2 * NatOf(SubSeq(b, 1, Len(b) - 1)) + b[Len(b)]

Pad(b, n) == Zeros(n - Len(b)) \o b

\* a >= b, for numerals without leading zeros
GeqBits(a, b) ==
    IF Len(a) # Len(b) THEN Len(a) > Len(b)
    ELSE \A i \in 1..Len(a) : a[i] < b[i] => \E j \in 1..(i - 1) : a[j] # b[j]

\* a + b: the carry into a position comes from a lower position where both
\* bits are 1, through positions where one is
AddBits(a, b) ==
    LET n == 1 + (IF Len(a) > Len(b) THEN Len(a) ELSE Len(b))
        x == Pad(a, n)
        y == Pad(b, n)
        carry(i) == \E j \in (i + 1)..n :
                        /\ x[j] + y[j] = 2
                        /\ \A k \in (i + 1)..(j - 1) : x[k] + y[k] = 1 IN
    Trim([i \in 1..n |-> (x[i] + y[i] + (IF carry(i) THEN 1 ELSE 0)) % 2])

\* a - b, a >= b: the borrow from a position comes from a lower position
\* where a has 0 and b has 1, through positions where the bits are equal
SubBits(a, b) ==
    LET n == Len(a)
        y == Pad(b, n)
        borrow(i) == \E j \in (i + 1)..n :
                        /\ a[j] < y[j]
                        /\ \A k \in (i + 1)..(j - 1) : a[k] = y[k] IN
    Trim([i \in 1..n |-> (2 + a[i] - y[i] - (IF borrow(i) THEN 1 ELSE 0)) % 2])

\* a * k for a numeral a and a small natural k
RECURSIVE MulBits(_, _)
MulBits(a, k) ==
    IF k = 0 THEN <<>>
    ELSE LET rest == MulBits(a \o <<0>>, k \div 2) IN
         IF k % 2 = 1 THEN AddBits(a, rest) ELSE rest

MulSmall(a, k) == IF a = <<>> THEN <<>> ELSE MulBits(a, k)

\* long division: the bits of a still to bring down, the divisor, the
\* quotient and the remainder so far
RECURSIVE DivStep(_, _, _, _)
DivStep(a, b, q, r) ==
    IF a = <<>> THEN [q |-> q, r |-> r]
    ELSE LET r2 == Trim(Append(r, a[1])) IN
         IF GeqBits(r2, b)
         THEN DivStep(Tail(a), b, Append(q, 1), SubBits(r2, b))
         ELSE DivStep(Tail(a), b, Append(q, 0), r2)

\* the division, sixteen bits of a at a time
RECURSIVE DivChunks(_, _, _)
DivChunks(a, b, done) ==
    IF a = <<>> THEN [q |-> Trim(done.q), r |-> done.r]
    ELSE LET n == IF Len(a) < 16 THEN Len(a) ELSE 16
             part == DivStep(SubSeq(a, 1, n), b, done.q, done.r) IN
         DivChunks(SubSeq(a, n + 1, Len(a)), b, part)

DivBits(a, b) == DivChunks(a, b, [q |-> <<>>, r |-> <<>>])

\* the number m * 2^e with the trailing zeros of m moved to the exponent
StripZeros(m, e) ==
    IF m = <<>> THEN [m |-> <<>>, e |-> 0]
    ELSE LET last == CHOOSE i \in DOMAIN m :
                        m[i] = 1 /\ \A j \in (i + 1)..Len(m) : m[j] = 0 IN
         [m |-> SubSeq(m, 1, last), e |-> e + Len(m) - last]

\* round to nearest, ties to even: the binary64 value nearest to m * 2^e
\* (plus less than 2^e more when `sticky`; m then has more than Mantissa bits)
RoundToDouble(m, e, sticky) ==
    IF Len(m) <= Mantissa THEN StripZeros(m, e)
    ELSE LET keep == SubSeq(m, 1, Mantissa)
             guard == m[Mantissa + 1]
             rest == sticky \/ \E i \in (Mantissa + 2)..Len(m) : m[i] = 1
             up == guard = 1 /\ (rest \/ keep[Mantissa] = 1)
             kept == IF up THEN AddBits(keep, <<1>>) ELSE keep IN
         StripZeros(kept, e + Len(m) - Mantissa)

\* the number 0
JsZero == [m |-> <<>>, e |-> 0]

\* the number a JSON decimal n / d parses to (d at most 2^9)
JsNumber(n, d) ==
    LET k == Mantissa + 11
        dv == DivBits(BitsOf(n) \o Zeros(k), BitsOf(d)) IN
    RoundToDouble(dv.q, 0 - k, dv.r # <<>>)

\* x + y
JsAdd(x, y) ==
    LET e == IF x.e < y.e THEN x.e ELSE y.e IN
    IF x.m = <<>> THEN y
    ELSE IF y.m = <<>> THEN x
    ELSE RoundToDouble(AddBits(x.m \o Zeros(x.e - e), y.m \o Zeros(y.e - e)),
                       e, FALSE)

\* x / y, y > 0
JsDiv(x, y) ==
    LET k == Mantissa + 3 + Len(y.m)
        dv == DivBits(x.m \o Zeros(k), y.m) IN
    RoundToDouble(dv.q, x.e - y.e - k, dv.r # <<>>)

\* x * k for a small natural k
JsMulInt(x, k) == RoundToDouble(MulSmall(x.m, k), x.e, FALSE)

\* x.toFixed(2), in hundredths: the integer n for which n / 100 - x is
\* closest to zero, the larger one of two
toFixed2(x) ==
    LET m == MulSmall(x.m, 100)
        whole == Len(m) + x.e IN
    IF x.e >= 0 THEN NatOf(m \o Zeros(x.e))
    ELSE (IF whole > 0 THEN NatOf(SubSeq(m, 1, whole)) ELSE 0)
         + (IF whole >= 0 /\ whole < Len(m) THEN m[whole + 1] ELSE 0)

\* ------------------------------------------------------ the Excel export
\* the rows as the component holds them: budget and total_cost are the
\* numbers the store's decimals were parsed to
JsUnit(u) == [u EXCEPT !.budget = JsNumber(u.budget, 100)]
JsPurchase(p) == [p EXCEPT !.total_cost = JsNumber(p.total_cost, 100)]

\* rows.reduce((sum, p) => sum + p.total_cost, 0)
RECURSIVE ReduceJs(_, _)
ReduceJs(rows, sum) ==
    IF rows = <<>> THEN sum
    ELSE ReduceJs(Tail(rows), JsAdd(sum, Head(rows).total_cost))

\* the category breakdown: data.purchases.reduce into an object whose keys
\* come in insertion order
RECURSIVE CategoryBreakdown(_, _)
CategoryBreakdown(rows, acc) ==
    IF rows = <<>> THEN acc
    ELSE LET p == Head(rows)
             known == \E k \in DOMAIN acc : acc[k].category = p.category
             next ==
                IF known
                THEN [k \in DOMAIN acc |->
                        IF acc[k].category = p.category
                        THEN [acc[k] EXCEPT !.amount = JsAdd(@, p.total_cost)]
                        ELSE acc[k]]
                ELSE Append(acc, [category |-> p.category,
                                  amount |-> JsAdd(JsZero, p.total_cost)]) IN
         CategoryBreakdown(Tail(rows), next)

\* exportToExcel: the Units sheet (Unit ID, Actual Cost, Cost Percentage in
\* hundredths of a percent) and the category breakdown of the Summary sheet
exportToExcel(data) ==
    [written |-> TRUE,
     Units |->
        [i \in DOMAIN data.units |->
            LET unit == data.units[i]
                unitPurchases == SelectSeq(data.purchases,
                                           LAMBDA p : p.unit_id = unit.id)
                actualCost == ReduceJs(unitPurchases, JsZero) IN
            [id |-> unit.id, actualCost |-> actualCost,
             costPercentage |->
                IF unit.budget.m # <<>>
                THEN toFixed2(JsMulInt(JsDiv(actualCost, unit.budget), 100))
                ELSE 0]],
     Summary |-> CategoryBreakdown(data.purchases, <<>>)]

\* exportProjectToExcel: the rows of the project are exported
exportProjectToExcel(project, unitRows, purchaseRows) ==
    exportToExcel(
        [units |-> SelectSeq(unitRows, LAMBDA u : u.project_id = project.id),
         purchases |-> SelectSeq(purchaseRows,
                                 LAMBDA p : p.project_id = project.id)])

\* total_cost of the purchases of the export specification, in cents
ExportCosts == {3, 10, 20}
\* the purchases tables SpecExport starts from
ExportInputs ==
    {[project_id |-> CurrentProject, unit_id |-> u, partner_id |-> NULL,
      date |-> "2025-08-14", category |-> c, quantity |-> Num(1, 1),
      unit_price |-> Num(cost, 100), total_cost |-> Num(cost, 100)] :
        u \in {NULL, UnitIds[1]}, c \in Categories, cost \in ExportCosts}
ExportStores ==
    UNION {{[i \in 1..n |-> PurchaseRow(i, f[i])] : f \in [1..n -> ExportInputs]} :
            n \in 0..MaxExportRows}

\* the component has loaded its project: the lists hold the rows of the store
InitExport ==
    /\ partners = <<>>
    /\ units = <<UnitRow(UnitIds[1], CurrentProject, "B", 20000, NULL),
                 UnitRow(UnitIds[2], CurrentProject, "A", 0, NULL)>>
    /\ purchases \in ExportStores
    /\ partnersState = partners
    /\ unitsState = units
    /\ purchasesState = purchases
    /\ sub = Idle
    /\ submits = 0
    /\ formErrors = NoErrors
    /\ unitCosts = <<>>
    /\ categorySpending = <<>>
    /\ report = Closed
    /\ projects = <<ProjectRow(CurrentProject, CurrentUser, 500, ProjectCategories)>>
    /\ currentProject = projects[1]
    /\ stmt = NoStatement
    /\ sync = NoSync
    /\ workbook = NoWorkbook
    /\ settings = NoSettings
    /\ loads = NoLoads
    /\ purchaseForm = NoPurchaseForm

\* handleExportToExcel: the project and the lists of the component are
\* exported
handleExportToExcel ==
    /\ workbook' = exportProjectToExcel(currentProject,
            [i \in DOMAIN unitsState |-> JsUnit(unitsState[i])],
            [i \in DOMAIN purchasesState |-> JsPurchase(purchasesState[i])])
    /\ UNCHANGED <<partners, units, purchases, partnersState, unitsState,
                   purchasesState, sub, submits, formErrors, unitCosts,
                   categorySpending, report, projects, currentProject, stmt,
                   sync, formVars>>

NextExport == handleExportToExcel

SpecExport == InitExport /\ [][NextExport]_vars

\* ------------------------------------------------------- the store's rules
\* the users of the store
Users == {"alice", "bob"}
\* the ids gen_random_uuid() hands out in SpecStore, per table
ProjectPool == {"P1", "P2"}
PartnerPool == {"pt1"}
UnitPool == {"u1"}
PurchasePool == 1..MaxStoreRows

\* gen_random_uuid(): an id no row of the table has
FreshId(rows, pool) == CHOOSE id \in pool : id \notin Ids(rows)

\* project_id IN (SELECT id FROM public.projects WHERE user_id = auth.uid())
OwnsProject(user, project_id) ==
    \E i \in DOMAIN projects :
        projects[i].id = project_id /\ projects[i].user_id = user

\* the policies of public.projects: auth.uid() = user_id
ProjectPolicy(user, row) == row.user_id = user
\* the policies of partners, units and purchases
ChildPolicy(user, row) == OwnsProject(user, row.project_id)

\* REFERENCES ... : the referenced row exists, or the reference is NULL
References(rows, id) == id = NULL \/ id \in Ids(rows)

\* DELETE of the row with that id
Remove(rows, id) == SelectSeq(rows, LAMBDA r : r.id # id)
\* the rows that referenced a deleted row stay as they are
Cascade_Keep(rows, field, ids) == rows
\* ON DELETE CASCADE: the rows that referenced one of the deleted ids go too
Cascade(rows, field, ids) == SelectSeq(rows, LAMBDA r : r[field] \notin ids)
\* the rows that referenced a deleted row are deleted with it
SetNull_Cascade(rows, field, ids) == SelectSeq(rows, LAMBDA r : r[field] \notin ids)
\* ON DELETE SET NULL: the rows that referenced one of the deleted ids stay
SetNull(rows, field, ids) ==
    [i \in DOMAIN rows |->
        IF rows[i][field] \in ids THEN [rows[i] EXCEPT ![field] = NULL]
        ELSE rows[i]]

uiVars == <<partnersState, unitsState, purchasesState, sub, submits, formErrors,
            unitCosts, categorySpending, report, currentProject, sync,
            workbook, formVars>>

\* SELECT * FROM <table>: the rows the policy lets this user see
SelectProjects(user) ==
    /\ stmt' = Result(user, "select", "projects",
                      SelectSeq(projects, LAMBDA r : ProjectPolicy(user, r)))
    /\ UNCHANGED <<projects, partners, units, purchases, uiVars>>

SelectPartners(user) ==
    /\ stmt' = Result(user, "select", "partners",
                      SelectSeq(partners, LAMBDA r : ChildPolicy(user, r)))
    /\ UNCHANGED <<projects, partners, units, purchases, uiVars>>

SelectUnits(user) ==
    /\ stmt' = Result(user, "select", "units",
                      SelectSeq(units, LAMBDA r : ChildPolicy(user, r)))
    /\ UNCHANGED <<projects, partners, units, purchases, uiVars>>

SelectPurchases(user) ==
    /\ stmt' = Result(user, "select", "purchases",
                      SelectSeq(purchases, LAMBDA r : ChildPolicy(user, r)))
    /\ UNCHANGED <<projects, partners, units, purchases, uiVars>>

\* INSERT INTO public.projects: WITH CHECK (auth.uid() = user_id)
InsertProject(user, owner) ==
    /\ Ids(projects) # ProjectPool
    /\ LET row == ProjectRow(FreshId(projects, ProjectPool), owner, 500,
                             ProjectCategories) IN
        IF ProjectPolicy(user, row)
        THEN /\ projects' = Append(projects, row)
             /\ stmt' = Result(user, "insert", "projects", <<row>>)
        ELSE /\ stmt' = Refused(user, "insert", "projects")
             /\ UNCHANGED projects
    /\ UNCHANGED <<partners, units, purchases, uiVars>>

\* INSERT INTO public.partners: the project must be one of the user's
InsertPartner(user, project_id) ==
    /\ Ids(partners) # PartnerPool
    /\ LET row == PartnerRow(FreshId(partners, PartnerPool), project_id) IN
        IF ChildPolicy(user, row)
        THEN /\ partners' = Append(partners, row)
             /\ stmt' = Result(user, "insert", "partners", <<row>>)
        ELSE /\ stmt' = Refused(user, "insert", "partners")
             /\ UNCHANGED partners
    /\ UNCHANGED <<projects, units, purchases, uiVars>>

\* INSERT INTO public.units: the project must be one of the user's, the
\* partner any existing partner
InsertUnit(user, project_id, partner_id) ==
    /\ Ids(units) # UnitPool
    /\ LET row == UnitRow(FreshId(units, UnitPool), project_id, "A", 30,
                          partner_id) IN
        IF ChildPolicy(user, row) /\ References(partners, partner_id)
        THEN /\ units' = Append(units, row)
             /\ stmt' = Result(user, "insert", "units", <<row>>)
        ELSE /\ stmt' = Refused(user, "insert", "units")
             /\ UNCHANGED units
    /\ UNCHANGED <<projects, partners, purchases, uiVars>>

\* INSERT INTO public.purchases: the project must be one of the user's, the
\* unit and the partner any existing unit and partner
InsertPurchase(user, project_id, unit_id, partner_id) ==
    /\ Ids(purchases) # PurchasePool
    /\ LET row == PurchaseRow(FreshId(purchases, PurchasePool),
                    [project_id |-> project_id, unit_id |-> unit_id,
                     partner_id |-> partner_id, date |-> "2025-08-14",
                     category |-> "Kitchen", quantity |-> Num(1, 1),
                     unit_price |-> Num(7, 100), total_cost |-> Num(7, 100)]) IN
        IF /\ ChildPolicy(user, row)
           /\ References(units, unit_id)
           /\ References(partners, partner_id)
        THEN /\ purchases' = Append(purchases, row)
             /\ stmt' = Result(user, "insert", "purchases", <<row>>)
        ELSE /\ stmt' = Refused(user, "insert", "purchases")
             /\ UNCHANGED purchases
    /\ UNCHANGED <<projects, partners, units, uiVars>>

\* UPDATE public.purchases SET project_id = ..., unit_id = ... WHERE id = ...:
\* a row the policy hides is not updated; the new row must pass the policy
\* too (USING stands in for the missing WITH CHECK) and reference an existing
\* unit
UpdatePurchase(user, id, project_id, unit_id) ==
    /\ \E i \in DOMAIN purchases :
        /\ purchases[i].id = id
        /\ ChildPolicy(user, purchases[i])
        /\ LET row == [purchases[i] EXCEPT !.project_id = project_id,
                                           !.unit_id = unit_id] IN
            IF ChildPolicy(user, row) /\ References(units, unit_id)
            THEN /\ purchases' = [purchases EXCEPT ![i] = row]
                 /\ stmt' = Result(user, "update", "purchases", <<row>>)
            ELSE /\ stmt' = Refused(user, "update", "purchases")
                 /\ UNCHANGED purchases
    /\ UNCHANGED <<projects, partners, units, uiVars>>

\* DELETE FROM public.purchases WHERE id = ...: a row the policy hides is
\* not deleted
DeletePurchase(user, id) ==
    /\ \E i \in DOMAIN purchases :
        purchases[i].id = id /\ ChildPolicy(user, purchases[i])
    /\ purchases' = Remove(purchases, id)
    /\ stmt' = Result(user, "delete", "purchases", <<>>)
    /\ UNCHANGED <<projects, partners, units, uiVars>>

\* DELETE FROM public.units WHERE id = ...: purchases.unit_id is
\* ON DELETE SET NULL
DeleteUnit(user, id) ==
    /\ \E i \in DOMAIN units : units[i].id = id /\ ChildPolicy(user, units[i])
    /\ units' = Remove(units, id)
    /\ purchases' = SetNull(purchases, "unit_id", {id})
    /\ stmt' = Result(user, "delete", "units", <<>>)
    /\ UNCHANGED <<projects, partners, uiVars>>

\* DELETE FROM public.partners WHERE id = ...: units.partner_id and
\* purchases.partner_id are ON DELETE SET NULL
DeletePartner(user, id) ==
    /\ \E i \in DOMAIN partners :
        partners[i].id = id /\ ChildPolicy(user, partners[i])
    /\ partners' = Remove(partners, id)
    /\ units' = SetNull(units, "partner_id", {id})
    /\ purchases' = SetNull(purchases, "partner_id", {id})
    /\ stmt' = Result(user, "delete", "partners", <<>>)
    /\ UNCHANGED <<projects, uiVars>>

\* DELETE FROM public.projects WHERE id = ...: project_id of partners, units
\* and purchases is ON DELETE CASCADE, and the references to the partners and
\* units that go with the project are set to NULL in the rows that stay
DeleteProject(user, id) ==
    /\ \E i \in DOMAIN projects :
        projects[i].id = id /\ ProjectPolicy(user, projects[i])
    /\ LET gonePartners == {partners[i].id : i \in {k \in DOMAIN partners :
                                                partners[k].project_id = id}}
           goneUnits == {units[i].id : i \in {k \in DOMAIN units :
                                                units[k].project_id = id}} IN
        /\ projects' = Remove(projects, id)
        /\ partners' = Cascade(partners, "project_id", {id})
        /\ units' = SetNull(Cascade(units, "project_id", {id}),
                            "partner_id", gonePartners)
        /\ purchases' = SetNull(SetNull(Cascade(purchases, "project_id", {id}),
                                        "unit_id", goneUnits),
                                "partner_id", gonePartners)
    /\ stmt' = Result(user, "delete", "projects", <<>>)
    /\ UNCHANGED uiVars

InitStore ==
    /\ partners = <<>>
    /\ units = <<>>
    /\ purchases = <<>>
    /\ partnersState = <<>>
    /\ unitsState = <<>>
    /\ purchasesState = <<>>
    /\ sub = Idle
    /\ submits = 0
    /\ formErrors = NoErrors
    /\ unitCosts = <<>>
    /\ categorySpending = <<>>
    /\ report = Closed
    /\ projects = <<>>
    /\ currentProject = NULL
    /\ stmt = NoStatement
    /\ sync = NoSync
    /\ workbook = NoWorkbook
    /\ settings = NoSettings
    /\ loads = NoLoads
    /\ purchaseForm = NoPurchaseForm

NextStore ==
    \/ \E user \in Users : SelectProjects(user)
    \/ \E user \in Users : SelectPartners(user)
    \/ \E user \in Users : SelectUnits(user)
    \/ \E user \in Users : SelectPurchases(user)
    \/ \E user, owner \in Users : InsertProject(user, owner)
    \/ \E user \in Users, project_id \in ProjectPool : InsertPartner(user, project_id)
    \/ \E user \in Users, project_id \in ProjectPool,
          partner_id \in PartnerPool \cup {NULL} :
            InsertUnit(user, project_id, partner_id)
    \/ \E user \in Users, project_id \in ProjectPool,
          unit_id \in UnitPool \cup {NULL}, partner_id \in PartnerPool \cup {NULL} :
            InsertPurchase(user, project_id, unit_id, partner_id)
    \/ \E user \in Users, id \in PurchasePool, project_id \in ProjectPool,
          unit_id \in UnitPool \cup {NULL} :
            UpdatePurchase(user, id, project_id, unit_id)
    \/ \E user \in Users, id \in PurchasePool : DeletePurchase(user, id)
    \/ \E user \in Users, id \in UnitPool : DeleteUnit(user, id)
    \/ \E user \in Users, id \in PartnerPool : DeletePartner(user, id)
    \/ \E user \in Users, id \in ProjectPool : DeleteProject(user, id)

SpecStore == InitStore /\ [][NextStore]_vars

\* ------------------------------------------------- sync-google-sheets
\* the sheets the function creates and writes
SheetNames == <<"Project Info", "Partners", "Units", "Purchases", "Summary">>
\* what a fetch() can do: resolve with a 2xx response, resolve with an error
\* response, reject
Outcomes == {"ok", "http_error", "throw"}
\* the spreadsheet API answers 2xx only to a request that carries a token
Possible(outcome) == outcome = "ok" => sync.token # NULL
\* the external calls that failed so far
Failed(kind, outcome) ==
    IF outcome = "ok" THEN sync.failed ELSE sync.failed \cup {kind}

syncFrame == <<partners, units, purchases, partnersState, unitsState,
               purchasesState, sub, submits, formErrors, unitCosts,
               categorySpending, report, projects, currentProject, stmt,
               workbook, formVars>>

\* Deno.serve handler up to the token exchange: the request is parsed and the
\* project, partners, units and purchases are read
SyncRequest(hasIds, storeOk) ==
    /\ sync.phase = "idle"
    /\ sync' = IF hasIds /\ storeOk
               THEN [sync EXCEPT !.phase = "token"]
               ELSE [sync EXCEPT !.phase = "responded", !.response = "error"]
    /\ UNCHANGED syncFrame

\* getGoogleAccessToken: a rejected fetch ends the handler in its catch
\* block; an error response leaves access_token undefined; then the five
\* createSheetIfNotExists calls start
TokenExchange(outcome) ==
    /\ sync.phase = "token"
    /\ sync' =
        IF outcome = "throw"
        THEN [sync EXCEPT !.phase = "responded", !.response = "error",
                          !.failed = {"token"}]
        ELSE [sync EXCEPT !.phase = "creating",
                          !.token = IF outcome = "ok" THEN "token" ELSE NULL,
                          !.failed = IF outcome = "ok" THEN {} ELSE {"token"},
                          !.tasks = [i \in DOMAIN SheetNames |-> "read"]]
    /\ UNCHANGED syncFrame

\* when the last createSheetIfNotExists has returned, Promise.all resolves
\* and the five clearAndWriteSheet calls start
AfterCreate(tasks) ==
    IF \A i \in DOMAIN tasks : tasks[i] = "finished"
    THEN [phase |-> "writing", tasks |-> [i \in DOMAIN tasks |-> "clear"]]
    ELSE [phase |-> "creating", tasks |-> tasks]

\* createSheetIfNotExists, the read of the spreadsheet: a rejected fetch and
\* an error response (spreadsheet.sheets is undefined) end in the catch
\* block, which logs and returns
ReadSheets(i, outcome, exists) ==
    /\ sync.phase = "creating"
    /\ i \in DOMAIN sync.tasks
    /\ sync.tasks[i] = "read"
    /\ Possible(outcome)
    /\ LET tasks == [sync.tasks EXCEPT ![i] =
                        IF outcome = "ok" /\ ~exists THEN "create" ELSE "finished"]
           next == AfterCreate(tasks) IN
        sync' = [sync EXCEPT !.phase = next.phase, !.tasks = next.tasks,
                             !.failed = Failed("read", outcome)]
    /\ UNCHANGED syncFrame

\* createSheetIfNotExists, the batchUpdate that adds the sheet: its response
\* is not looked at, a rejection is caught
CreateSheet(i, outcome) ==
    /\ sync.phase = "creating"
    /\ i \in DOMAIN sync.tasks
    /\ sync.tasks[i] = "create"
    /\ Possible(outcome)
    /\ LET next == AfterCreate([sync.tasks EXCEPT ![i] = "finished"]) IN
        sync' = [sync EXCEPT !.phase = next.phase, !.tasks = next.tasks,
                             !.failed = Failed("create", outcome)]
    /\ UNCHANGED syncFrame

\* clearAndWriteSheet, the clear: a rejected fetch rejects Promise.all and the
\* handler answers from its catch block; the response is not looked at
ClearSheet(i, outcome) ==
    /\ sync.phase \in {"writing", "responded"}
    /\ i \in DOMAIN sync.tasks
    /\ sync.tasks[i] = "clear"
    /\ Possible(outcome)
    /\ sync' =
        IF outcome = "throw"
        THEN [sync EXCEPT !.tasks[i] = "threw", !.phase = "responded",
                          !.response = "error",
                          !.failed = Failed("clear", outcome)]
        ELSE [sync EXCEPT !.tasks[i] = "write",
                          !.failed = Failed("clear", outcome)]
    /\ UNCHANGED syncFrame

\* clearAndWriteSheet, the write; when the last of the five has returned the
\* handler answers success: true
WriteSheet(i, outcome) ==
    /\ sync.phase \in {"writing", "responded"}
    /\ i \in DOMAIN sync.tasks
    /\ sync.tasks[i] = "write"
    /\ Possible(outcome)
    /\ LET tasks == [sync.tasks EXCEPT ![i] =
                        IF outcome = "throw" THEN "threw" ELSE "finished"] IN
        sync' =
            IF outcome = "throw"
            THEN [sync EXCEPT !.tasks = tasks, !.phase = "responded",
                              !.response = "error",
                              !.failed = Failed("write", outcome)]
            ELSE IF sync.phase = "writing"
                    /\ \A j \in DOMAIN tasks : tasks[j] = "finished"
            THEN [sync EXCEPT !.tasks = tasks, !.phase = "responded",
                              !.response = "success",
                              !.failed = Failed("write", outcome)]
            ELSE [sync EXCEPT !.tasks = tasks,
                              !.failed = Failed("write", outcome)]
    /\ UNCHANGED syncFrame

InitSync == InitStore

NextSync ==
    \/ \E hasIds, storeOk \in BOOLEAN : SyncRequest(hasIds, storeOk)
    \/ \E outcome \in Outcomes : TokenExchange(outcome)
    \/ \E i \in DOMAIN SheetNames, outcome \in Outcomes, exists \in BOOLEAN :
        ReadSheets(i, outcome, exists)
    \/ \E i \in DOMAIN SheetNames, outcome \in Outcomes : CreateSheet(i, outcome)
    \/ \E i \in DOMAIN SheetNames, outcome \in Outcomes : ClearSheet(i, outcome)
    \/ \E i \in DOMAIN SheetNames, outcome \in Outcomes : WriteSheet(i, outcome)

SpecSync == InitSync /\ [][NextSync]_vars

\* -------------------------------------- the server-side reads of a project
\* the result of a read that takes a project id
ProjectRead(user, op, project, rows) ==
    [user |-> user, op |-> op, table |-> NULL, rows |-> rows, error |-> FALSE,
     project |-> project]

\* rpc('get_unit_costs', { project_uuid }) by a signed-in user: the function
\* is SECURITY DEFINER, the policies of units and purchases do not apply
RpcUnitCosts(user, project_uuid) ==
    /\ \E data \in get_unit_costs(project_uuid) :
        stmt' = ProjectRead(user, "get_unit_costs", project_uuid, data)
    /\ UNCHANGED <<projects, partners, units, purchases, uiVars>>

\* rpc('get_category_spending', { project_uuid }) by a signed-in user
RpcCategorySpending(user, project_uuid) ==
    /\ \E data \in get_category_spending(project_uuid) :
        stmt' = ProjectRead(user, "get_category_spending", project_uuid, data)
    /\ UNCHANGED <<projects, partners, units, purchases, uiVars>>

\* the reads of the sync-google-sheets handler for the projectId of the
\* request: a client made with the service role key, so no policy applies;
\* .single() fails when there is no such project. The units and purchases
\* read are what is written to the caller's spreadsheet
SyncReads(user, projectId) ==
    /\ stmt' =
        IF \E i \in DOMAIN projects : projects[i].id = projectId
        THEN ProjectRead(user, "sync-google-sheets", projectId,
                SelectSeq(units, LAMBDA r : r.project_id = projectId)
                    \o SelectSeq(purchases, LAMBDA r : r.project_id = projectId))
        ELSE [ProjectRead(user, "sync-google-sheets", projectId, <<>>)
                EXCEPT !.error = TRUE]
    /\ UNCHANGED <<projects, partners, units, purchases, uiVars>>

NextReads ==
    \/ \E user, owner \in Users : InsertProject(user, owner)
    \/ \E user \in Users, project_id \in ProjectPool :
        InsertUnit(user, project_id, NULL)
    \/ \E user \in Users, project_id \in ProjectPool, unit_id \in UnitPool \cup {NULL} :
        InsertPurchase(user, project_id, unit_id, NULL)
    \/ \E user \in Users, project_uuid \in ProjectPool : RpcUnitCosts(user, project_uuid)
    \/ \E user \in Users, project_uuid \in ProjectPool :
        RpcCategorySpending(user, project_uuid)
    \/ \E user \in Users, projectId \in ProjectPool : SyncReads(user, projectId)

SpecReads == InitStore /\ [][NextReads]_vars

\* ------------------------------------------------- loading the project data
\* the uuids gen_random_uuid() gives the projects loadProjectData creates
LoadProjectIds == <<"P1", "P2", "P3", "P4">>
\* the categories of the default project
DefaultCategories ==
    <<"Plumbing", "Bathroom", "Bedroom", "Kitchen", "Living Room", "Flooring",
      "Electrical", "HVAC", "Roofing", "Painting", "Doors & Windows",
      "Insulation", "Foundation", "Exterior", "Other">>

\* order('created_at', { ascending: false }): the latest row first
Reversed(rows) == [i \in DOMAIN rows |-> rows[Len(rows) + 1 - i]]

\* what loadProjectData does not touch
loadFrame == <<partners, units, purchases, sub, submits, formErrors, unitCosts,
               categorySpending, report, stmt, sync, workbook, settings,
               purchaseForm>>

\* setSession with a new session object, by getSession or by the
\* onAuthStateChange callback: the effect on [session] starts loadProjectData,
\* which sends getProjects
SessionSet(k) ==
    /\ loads[k].phase = "idle"
    /\ loads' = [loads EXCEPT ![k].phase = "getProjects"]
    /\ UNCHANGED <<projects, currentProject, partnersState, unitsState,
                   purchasesState, loadFrame>>

\* getProjects returns the projects of the user, the latest first; with a
\* project, setCurrentProject(projects[0]) and the three reads are sent;
\* with none, createProject is sent
GetProjectsReturns(k) ==
    /\ loads[k].phase = "getProjects"
    /\ LET data == Reversed(SelectSeq(projects, LAMBDA r : r.user_id = CurrentUser)) IN
        IF data = <<>>
        THEN /\ loads' = [loads EXCEPT ![k].phase = "createProject"]
             /\ UNCHANGED currentProject
        ELSE /\ loads' = [loads EXCEPT ![k].phase = "related",
                                       ![k].project = data[1].id]
             /\ currentProject' = data[1]
    /\ UNCHANGED <<projects, partnersState, unitsState, purchasesState, loadFrame>>

\* createProject returns the row the store inserted for the user:
\* setCurrentProject(project) and the three reads are sent
CreateProjectReturns(k) ==
    /\ loads[k].phase = "createProject"
    /\ Len(projects) < Len(LoadProjectIds)
    /\ LET project == ProjectRow(LoadProjectIds[Len(projects) + 1], CurrentUser,
                                 30000000, DefaultCategories) IN
        /\ projects' = Append(projects, project)
        /\ currentProject' = project
        /\ loads' = [loads EXCEPT ![k].phase = "related", ![k].project = project.id]
    /\ UNCHANGED <<partnersState, unitsState, purchasesState, loadFrame>>

\* the store answers getPartners, getUnits and getPurchases of the run; the
\* purchases come ordered by date, equal dates in any order
RelatedRead(k) ==
    /\ loads[k].phase = "related"
    /\ LET mine(rows) == SelectSeq(rows, LAMBDA r : r.project_id = loads[k].project)
           found == mine(purchases) IN
        \E purchasesData \in Orderings({found[i] : i \in DOMAIN found}) :
            loads' = [loads EXCEPT ![k].phase = "arriving",
                        ![k].data = <<Reversed(mine(partners)),
                                      Reversed(mine(units)), purchasesData>>]
    /\ UNCHANGED <<projects, currentProject, partnersState, unitsState,
                   purchasesState, loadFrame>>

\* Promise.all of the three reads resolves: setPartners, setUnits,
\* setPurchases with what was read
RelatedResolves(k) ==
    /\ loads[k].phase = "arriving"
    /\ partnersState' = loads[k].data[1]
    /\ unitsState' = loads[k].data[2]
    /\ purchasesState' = loads[k].data[3]
    /\ loads' = [loads EXCEPT ![k].phase = "done", ![k].data = <<>>]
    /\ UNCHANGED <<projects, currentProject, loadFrame>>

\* a request of the run throws: the catch block shows the error toast
LoadFails(k) ==
    /\ loads[k].phase \in {"getProjects", "createProject", "related", "arriving"}
    /\ loads' = [loads EXCEPT ![k].phase = "failed", ![k].data = <<>>]
    /\ UNCHANGED <<projects, currentProject, partnersState, unitsState,
                   purchasesState, loadFrame>>

\* a signed-in user who has no project opens the tracker
InitLoad ==
    /\ partners = <<>>
    /\ units = <<>>
    /\ purchases = <<>>
    /\ partnersState = <<>>
    /\ unitsState = <<>>
    /\ purchasesState = <<>>
    /\ sub = Idle
    /\ submits = 0
    /\ formErrors = NoErrors
    /\ unitCosts = <<>>
    /\ categorySpending = <<>>
    /\ report = Closed
    /\ projects = <<>>
    /\ currentProject = NULL
    /\ stmt = NoStatement
    /\ sync = NoSync
    /\ workbook = NoWorkbook
    /\ settings = NoSettings
    /\ loads = NoLoads
    /\ purchaseForm = NoPurchaseForm

NextLoad ==
    \E k \in 1..MaxLoads :
        \/ SessionSet(k)
        \/ GetProjectsReturns(k)
        \/ CreateProjectReturns(k)
        \/ RelatedRead(k)
        \/ RelatedResolves(k)
        \/ LoadFails(k)

SpecLoad == InitLoad /\ [][NextLoad]_vars

\* what the purchase form holds when a purchase is split over both units or
\* goes to the first
ReloadFormData ==
    {[date |-> d, category |-> "Kitchen", quantity |-> 100, unitPrice |-> 700,
      units |-> us, partner |-> NULL, distributeEvenly |-> TRUE] :
        d \in Dates, us \in {<<UnitIds[1]>>, <<UnitIds[1], UnitIds[2]>>}}

\* the tracker has loaded a project with two units and no purchase
InitReload ==
    /\ partners = <<>>
    /\ units = <<UnitRow(UnitIds[1], CurrentProject, "Apt", 300, NULL),
                 UnitRow(UnitIds[2], CurrentProject, "B", 300, NULL)>>
    /\ purchases = <<>>
    /\ partnersState = <<>>
    /\ unitsState = Reversed(units)
    /\ purchasesState = <<>>
    /\ sub = Idle
    /\ submits = 0
    /\ formErrors = NoErrors
    /\ unitCosts = <<>>
    /\ categorySpending = <<>>
    /\ report = Closed
    /\ projects = <<ProjectRow(CurrentProject, CurrentUser, 500, ProjectCategories)>>
    /\ currentProject = projects[1]
    /\ stmt = NoStatement
    /\ sync = NoSync
    /\ workbook = NoWorkbook
    /\ settings = NoSettings
    /\ loads = NoLoads
    /\ purchaseForm = NoPurchaseForm

NextReload ==
    \/ \E k \in 1..MaxReloads : SessionSet(k)
    \/ \E k \in 1..MaxReloads : GetProjectsReturns(k)
    \/ \E k \in 1..MaxReloads : RelatedRead(k)
    \/ \E k \in 1..MaxReloads : RelatedResolves(k)
    \/ \E k \in 1..MaxReloads : LoadFails(k)
    \/ CanSubmit /\ \E data \in ReloadFormData : SubmitAccepted(data)
    \/ \E i \in 1..2 : CreatePurchaseResolves(i)
    \/ \E i \in 1..2 : CreatePurchaseRejects(i)

SpecReload == InitReload /\ [][NextReload]_vars

\* ------------------------------------- the unit selection of the purchase form
\* what the purchase form leaves alone while it is filled in
selectFrame == <<partners, units, purchases, partnersState, unitsState,
                 purchasesState, sub, submits, formErrors, unitCosts,
                 categorySpending, report, projects, currentProject, stmt,
                 sync, workbook, settings, loads>>

\* setShowPurchaseForm(true): the dialog of the mounted form is shown
OpenPurchaseForm ==
    /\ ~purchaseForm.open
    /\ purchaseForm' = [purchaseForm EXCEPT !.open = TRUE]
    /\ UNCHANGED selectFrame

\* the dialog is dismissed: onOpenChange(false)
ClosePurchaseForm ==
    /\ purchaseForm.open
    /\ purchaseForm' = [purchaseForm EXCEPT !.open = FALSE]
    /\ UNCHANGED selectFrame

\* onCheckedChange of 'Apply to all units'
SelectAllChange(checked) ==
    /\ purchaseForm.open
    /\ LET allUnitIds == [i \in DOMAIN unitsState |-> unitsState[i].id] IN
        purchaseForm' =
            [purchaseForm EXCEPT !.selectAllUnits = checked,
                                 !.selectedUnits = IF checked THEN allUnitIds ELSE <<>>,
                                 !.units = IF checked THEN allUnitIds ELSE <<>>]
    /\ UNCHANGED selectFrame

\* onCheckedChange of the checkbox of one unit, shown while 'Apply to all
\* units' is not checked
UnitCheckedChange(id, checked) ==
    /\ purchaseForm.open
    /\ ~purchaseForm.selectAllUnits
    /\ id \in Ids(unitsState)
    /\ checked = (\A i \in DOMAIN purchaseForm.selectedUnits :
                    purchaseForm.selectedUnits[i] # id)
    /\ LET newSelection ==
            IF checked THEN Append(purchaseForm.selectedUnits, id)
            ELSE SelectSeq(purchaseForm.selectedUnits, LAMBDA u : u # id) IN
        purchaseForm' = [purchaseForm EXCEPT !.selectedUnits = newSelection,
                                             !.units = newSelection]
    /\ UNCHANGED selectFrame

\* the form data at submit time: the units field as the checkboxes set it
SelectFormData ==
    {[date |-> d, category |-> "Kitchen", quantity |-> 100, unitPrice |-> 700,
      units |-> purchaseForm.units, partner |-> NULL, distributeEvenly |-> de] :
        d \in Dates, de \in BOOLEAN}

\* form.handleSubmit(handleSubmit): with invalid data the errors are shown;
\* with valid data onSubmit runs handleAddPurchase up to its await, then
\* form.reset(), setSelectedUnits([]), setSelectAllUnits(false) and
\* onOpenChange(false)
PurchaseFormSubmit(data) ==
    /\ purchaseForm.open
    /\ IF purchaseSchema(data) # {}
       THEN /\ formErrors' = [f \in purchaseSchema(data) |-> data[f]]
            /\ UNCHANGED <<sub, submits, purchaseForm>>
       ELSE /\ LET purchaseData == SubmittedPurchase(data)
                   calls == Payloads(purchaseData) IN
                sub' = [phase |-> "running", req |-> purchaseData,
                        payloads |-> calls,
                        status |-> [i \in DOMAIN calls |-> "pending"],
                        rows |-> [i \in DOMAIN calls |-> NULL]]
            /\ submits' = submits + 1
            /\ formErrors' = NoErrors
            /\ purchaseForm' = NoPurchaseForm
    /\ UNCHANGED <<partners, units, purchases, partnersState, unitsState,
                   purchasesState, unitCosts, categorySpending, report,
                   projects, currentProject, stmt, sync, workbook, settings,
                   loads>>

NextSelect ==
    \/ OpenPurchaseForm
    \/ ClosePurchaseForm
    \/ \E checked \in BOOLEAN : SelectAllChange(checked)
    \/ \E id \in Ids(unitsState), checked \in BOOLEAN : UnitCheckedChange(id, checked)
    \/ CanSubmit /\ \E data \in SelectFormData : PurchaseFormSubmit(data)
    \/ /\ ~purchaseForm.open
       /\ \E name \in UnitNames, budget \in UnitBudgets, partner \in Ids(partnersState) :
            handleAddUnit(name, budget, partner)
    \/ \E i \in 1..Len(UnitIds) : CreatePurchaseResolves(i)
    \/ \E i \in 1..Len(UnitIds) : CreatePurchaseRejects(i)

SpecSelect == Init /\ [][NextSelect]_vars

\* ------------------------------------------------ the dashboard percentages
\* a JavaScript number that is finite (an exact fraction), NaN or Infinity
Finite(n, d) == [kind |-> "finite", value |-> Num(n, d)]
NaN == [kind |-> "NaN", value |-> Num(0, 1)]
Infinity == [kind |-> "Infinity", value |-> Num(0, 1)]

\* (x / y) * 100 for x >= 0 and y >= 0: 0 / 0 is NaN and x / 0 is Infinity
JsPercent(x, y) ==
    IF y # 0 THEN Finite(100 * x, y)
    ELSE IF x = 0 THEN NaN
    ELSE Infinity

\* projectSchema of the project form: the fields that fail validation
projectSchema(data) ==
    {f \in {"name", "total_budget"} :
        \/ f = "name" /\ data.name = ""
        \/ f = "total_budget" /\ data.total_budget < 0}

\* the budgets, in cents, a project form can hold
ProjectFormData ==
    {[name |-> "Flat", total_budget |-> b] : b \in {0 - 1, 0, 1, 50000}}

\* totalSpent: purchases.reduce((sum, purchase) => sum + purchase.total_cost, 0)
totalSpent == Reduce(purchasesState, 0)

\* stats: the trend of 'Total Spent', the number toFixed(1) is applied to
statsTrend == JsPercent(totalSpent, currentProject.total_budget)

\* actualCost of a unit as ConstructionTracker hands it to UnitsTable
actualCost(u) == Reduce(SelectSeq(purchasesState, LAMBDA p : p.unit_id = u.id), 0)

\* getBudgetUsagePercentage of UnitsTable
getBudgetUsagePercentage(actual, budget) ==
    IF budget = 0 THEN Finite(0, 1)
    ELSE IF actual > budget THEN Finite(100, 1)
    ELSE JsPercent(actual, budget)

\* budgetUsed of AnalyticsTab, all purchases being in the time range or none
budgetUsed(inRange) ==
    LET spent == IF inRange THEN totalSpent ELSE 0 IN
    IF currentProject.total_budget > 0
    THEN JsPercent(spent, currentProject.total_budget)
    ELSE Finite(0, 1)

\* what the purchase form holds for a purchase of one unit or of both
DashboardFormData ==
    {[date |-> d, category |-> "Kitchen", quantity |-> 100, unitPrice |-> price,
      units |-> us, partner |-> NULL, distributeEvenly |-> de] :
        d \in Dates, de \in BOOLEAN, price \in {100, 700},
        us \in {<<UnitIds[1]>>, <<UnitIds[2]>>, <<UnitIds[1], UnitIds[2]>>}}

\* the tracker has loaded a project made with the project form, with a unit
\* that has a budget and a unit whose budget is the column default 0
InitDashboard ==
    /\ partners = <<>>
    /\ units = <<UnitRow(UnitIds[1], CurrentProject, "Apt", 300, NULL),
                 UnitRow(UnitIds[2], CurrentProject, "B", 0, NULL)>>
    /\ purchases = <<>>
    /\ partnersState = <<>>
    /\ unitsState = units
    /\ purchasesState = <<>>
    /\ sub = Idle
    /\ submits = 0
    /\ formErrors = NoErrors
    /\ unitCosts = <<>>
    /\ categorySpending = <<>>
    /\ report = Closed
    /\ \E data \in ProjectFormData :
        /\ projectSchema(data) = {}
        /\ projects = <<ProjectRow(CurrentProject, CurrentUser, data.total_budget,
                                   ProjectCategories)>>
    /\ currentProject = projects[1]
    /\ stmt = NoStatement
    /\ sync = NoSync
    /\ workbook = NoWorkbook
    /\ settings = NoSettings
    /\ loads = NoLoads
    /\ purchaseForm = NoPurchaseForm

NextDashboard ==
    \/ CanSubmit /\ \E data \in DashboardFormData : SubmitAccepted(data)
    \/ \E i \in 1..2 : CreatePurchaseResolves(i)
    \/ \E i \in 1..2 : CreatePurchaseRejects(i)

SpecDashboard == InitDashboard /\ [][NextDashboard]_vars

\* ------------------------------------------------------ editing a purchase
\* the times now() returns after the rows of SpecEdit were inserted
Times == {1, 2}
\* the updates a client passes to updatePurchase: Partial<Purchase>
PurchaseUpdates ==
    {[quantity |-> Num(2, 1)],
     [unit_price |-> Num(5, 100)],
     [quantity |-> Num(2, 1), unit_price |-> Num(5, 100)],
     [total_cost |-> Num(99, 100)],
     [category |-> "Other"]}

\* the value a column takes from an update: the decimal columns cast it
ColumnValue(field, value) ==
    IF field = "quantity" THEN ToDecimal(value, 3)
    ELSE IF field \in {"unit_price", "total_cost"} THEN ToDecimal(value, 2)
    ELSE value

\* a purchase row with its updated_at column
Stamped(row, time) ==
    [f \in DOMAIN row \cup {"updated_at"} |->
        IF f = "updated_at" THEN time ELSE row[f]]

\* UPDATE public.purchases SET total_cost recomputed from the new row
UpdatedRow_Recompute(row, updates, now) ==
    LET new == [f \in DOMAIN row |->
                    IF f \in DOMAIN updates THEN ColumnValue(f, updates[f])
                    ELSE IF f = "updated_at" THEN now
                    ELSE row[f]] IN
    [new EXCEPT !.total_cost = RoundDiv(new.quantity * new.unit_price, 1000)]

\* UPDATE public.purchases SET <updates> WHERE id = ...: the columns named
\* in the updates are set, the BEFORE UPDATE trigger
\* update_updated_at_column sets NEW.updated_at = now()
UpdatedRow(row, updates, now) ==
    [f \in DOMAIN row |->
        IF f = "updated_at" THEN now
        ELSE IF f \in DOMAIN updates THEN ColumnValue(f, updates[f])
        ELSE row[f]]

\* updatePurchase: update(updates).eq('id', id).select().single()
updatePurchase(id, updates, now) ==
    /\ \E i \in DOMAIN purchases :
        /\ purchases[i].id = id
        /\ now > purchases[i].updated_at
        /\ LET row == UpdatedRow(purchases[i], updates, now) IN
            /\ purchases' = [purchases EXCEPT ![i] = row]
            /\ stmt' = [user |-> CurrentUser, op |-> "updatePurchase",
                        table |-> "purchases", rows |-> <<row>>,
                        error |-> FALSE, updates |-> updates]
    /\ UNCHANGED <<projects, partners, units, uiVars>>

EditInput(unit_id, category, cost) ==
    [project_id |-> CurrentProject, unit_id |-> unit_id, partner_id |-> NULL,
     date |-> "2025-08-14", category |-> category, quantity |-> Num(1, 1),
     unit_price |-> Num(cost, 100), total_cost |-> Num(cost, 100)]

InitEdit ==
    /\ partners = <<>>
    /\ units = <<UnitRow(UnitIds[1], CurrentProject, "B", 20000, NULL)>>
    /\ purchases = <<Stamped(PurchaseRow(1, EditInput(UnitIds[1], "Kitchen", 7)), 0),
                     Stamped(PurchaseRow(2, EditInput(NULL, "Kitchen", 20)), 0)>>
    /\ partnersState = partners
    /\ unitsState = units
    /\ purchasesState = purchases
    /\ sub = Idle
    /\ submits = 0
    /\ formErrors = NoErrors
    /\ unitCosts = <<>>
    /\ categorySpending = <<>>
    /\ report = Closed
    /\ projects = <<ProjectRow(CurrentProject, CurrentUser, 500, ProjectCategories)>>
    /\ currentProject = projects[1]
    /\ stmt = NoStatement
    /\ sync = NoSync
    /\ workbook = NoWorkbook
    /\ settings = NoSettings
    /\ loads = NoLoads
    /\ purchaseForm = NoPurchaseForm

NextEdit ==
    \E id \in 1..2, updates \in PurchaseUpdates, now \in Times :
        updatePurchase(id, updates, now)

SpecEdit == InitEdit /\ [][NextEdit]_vars

\* ------------------------------------------------- the allocation claims
Done == sub.phase = "done"
Accepted == sub.phase # "idle"
\* the submission in flight (or the last one) takes the even-distribution branch
EvenSplit == sub.req.distributeEvenly /\ Len(sub.req.units) > 1
\* the form values of that submission: hundredths of a unit, cents
ReqQuantity == sub.req.quantity.n
ReqPrice == sub.req.unit_price.n
ReqN == Len(sub.req.units)

RECURSIVE SumCost(_)
SumCost(rows) ==
    IF rows = <<>> THEN 0 ELSE Head(rows).total_cost + SumCost(Tail(rows))

\* the rows of the table with the ids createPurchase returned
PersistedOfSub == SelectSeq(purchases, LAMBDA r : r.id \in Ids(sub.rows))

\* actual cost of a unit as every view derives it from a list of purchases
ActualCost(rows, u) == SumCost(SelectSeq(rows, LAMBDA r : r.unit_id = u))

\* 2 * |a - b| <= c
Within(a, b, c) == 2 * (a - b) <= c /\ 2 * (b - a) <= c

\* C1: with distribute_evenly and N >= 2 target units, the total_cost values
\* of the N purchases persisted for one submission sum to
\* quantity * unit_price of the submission, to the cent.
C1_SumEqualsTotal ==
    (Done /\ EvenSplit) =>
        /\ Within(100 * SumCost(PersistedOfSub), ReqQuantity * ReqPrice, 100)
        /\ SumCost(PersistedOfSub) = SumCost(sub.rows)

\* C2: every purchase row created by handleAddPurchase has
\* total_cost = round(quantity * unit_price, 2) for its own stored quantity
\* and unit_price, also the rows of an even distribution.
C2_RowCostIsProduct ==
    \A i \in DOMAIN sub.rows :
        sub.status[i] = "ok" =>
            sub.rows[i].total_cost
                = RoundDiv(sub.rows[i].quantity * sub.rows[i].unit_price, 1000)

\* what C3 and C4 say of the rows besides their quantity and cost: they are
\* the rows returned, in the table and in front of the in-memory list, and
\* carry price, date, category and partner of the submission
RowsOfSubmission(n) ==
    /\ Len(sub.rows) = n
    /\ Len(PersistedOfSub) = n
    /\ \A i \in 1..n : \E j \in DOMAIN purchases : purchases[j] = sub.rows[i]
    /\ SubSeq(purchasesState, 1, n) = sub.rows
    /\ \A i \in 1..n :
        /\ sub.rows[i].project_id = CurrentProject
        /\ sub.rows[i].unit_price = ReqPrice
        /\ sub.rows[i].date = sub.req.date
        /\ sub.rows[i].category = sub.req.category
        /\ sub.rows[i].partner_id = sub.req.partner_id

\* C3 as stated: with distribute_evenly and N > 1 target units a successful
\* handleAddPurchase creates exactly N purchases, one per target unit, each
\* with quantity = quantity / N, the submitted unit_price and the date,
\* category and partner of the submission.
C3_OnePerUnitExactQuantity ==
    (Done /\ EvenSplit) =>
        /\ RowsOfSubmission(ReqN)
        /\ \A i \in 1..ReqN :
            /\ sub.rows[i].unit_id = sub.req.units[i]
            /\ sub.rows[i].quantity * 100 * ReqN = 1000 * ReqQuantity

\* C3 as amended: the same, each with quantity = quantity / N rounded to the
\* three decimals of the quantity column.
C3_OnePerUnit ==
    (Done /\ EvenSplit) =>
        /\ RowsOfSubmission(ReqN)
        /\ \A i \in 1..ReqN :
            /\ sub.rows[i].unit_id = sub.req.units[i]
            /\ Within(sub.rows[i].quantity * 100 * ReqN, 1000 * ReqQuantity,
                      100 * ReqN)

\* an even distribution over three units has completed and a third of the
\* quantity is not a multiple of 0.001
C3_Witness ==
    /\ Done /\ EvenSplit /\ ReqN = 3
    /\ sub.rows[1].quantity * 100 * ReqN # 1000 * ReqQuantity
    /\ {sub.rows[i].unit_id : i \in 1..3} = {"u1", "u2", "u3"}
    /\ sub.req.partner_id # NULL
    /\ \A i \in 1..3 : purchasesState[i].partner_id = sub.req.partner_id

\* the state part of C4: one row, for target_units[0], with the full quantity
SingleRow ==
    /\ RowsOfSubmission(1)
    /\ sub.rows[1].unit_id = sub.req.units[1]
    /\ sub.rows[1].quantity * 100 = 1000 * ReqQuantity

\* the step part of C4: the call changes the actual cost of no other unit,
\* neither in the table nor in the in-memory list
OtherUnitsUntouched ==
    (sub.phase = "running" /\ ~EvenSplit) =>
        \A i \in DOMAIN UnitIds :
            UnitIds[i] # sub.req.units[1] =>
                /\ ActualCost(purchases', UnitIds[i]) = ActualCost(purchases, UnitIds[i])
                /\ ActualCost(purchasesState', UnitIds[i])
                       = ActualCost(purchasesState, UnitIds[i])

\* C4 as stated: without distribute_evenly, or with one target unit, exactly
\* one purchase is created, for target_units[0], with the full quantity, the
\* unit_price and total_cost = quantity * unit_price.
C4_SingleExactCost ==
    (Done /\ ~EvenSplit) =>
        /\ SingleRow
        /\ 100 * sub.rows[1].total_cost = ReqQuantity * ReqPrice

\* C4 as amended: the same with total_cost = quantity * unit_price rounded to
\* the cent; no purchase is created for another selected unit and the actual
\* cost of every other unit is unchanged.
C4_Single ==
    /\ []((Done /\ ~EvenSplit) =>
            /\ SingleRow
            /\ Within(100 * sub.rows[1].total_cost, ReqQuantity * ReqPrice, 100))
    /\ [][OtherUnitsUntouched]_vars

\* several units were selected without distribute_evenly, the product has a
\* fraction of a cent, and only the first selected unit got a purchase
C4_Witness ==
    /\ Done /\ ~sub.req.distributeEvenly /\ ReqN = 3
    /\ 100 * sub.rows[1].total_cost # ReqQuantity * ReqPrice
    /\ Len(purchases) = 1
    /\ purchases[1].unit_id = sub.req.units[1]

\* C5: a submission with quantity <= 0, unit_price < 0 or no target unit is
\* rejected: nothing is persisted and the in-memory list is unchanged. Every
\* submission handleAddPurchase runs for is none of these, the step that
\* shows validation errors changes neither the table nor the list, and they
\* change only in steps of a running handleAddPurchase.
C5_InvalidRejected ==
    /\ [](Accepted => (ReqQuantity > 0 /\ ReqPrice >= 0 /\ ReqN > 0))
    /\ [][(formErrors' # formErrors /\ formErrors' # NoErrors) =>
            (purchases' = purchases /\ purchasesState' = purchasesState
             /\ sub' = sub)]_vars
    /\ [][(purchases' # purchases \/ purchasesState' # purchasesState) =>
            (sub.phase \in {"running", "failed"} /\ sub'.req = sub.req)]_vars

\* a form with quantity 0, a negative price and no unit was rejected and
\* nothing was stored
C5_Witness ==
    /\ DOMAIN formErrors = {"quantity", "unitPrice", "units"}
    /\ formErrors.quantity <= 0
    /\ formErrors.unitPrice < 0
    /\ formErrors.units = <<>>
    /\ purchases = <<>> /\ purchasesState = <<>> /\ sub = Idle
    /\ Len(unitsState) > 0

RoundedHalfUp(r, a, b) == 2 * (r * b - a) <= b /\ 2 * (a - r * b) < b

\* the step in which get_unit_costs, get_category_spending returns
UnitCostsReturned == report.unitCostData = <<>> /\ report'.unitCostData # <<>>
CategorySpendingReturned ==
    report.categorySpendingData = <<>> /\ report'.categorySpendingData # <<>>

UnitsOf(project) == {units[i].id : i \in {k \in DOMAIN units : units[k].project_id = project}}
PurchasesOf(project) == SelectSeq(purchases, LAMBDA r : r.project_id = project)
InCategory(rows, c) == SelectSeq(rows, LAMBDA r : r.category = c)

\* s has one row per unit of the project, with the sum of the total_cost of
\* the purchases of that unit
UnitCostRows(s, project) ==
    /\ Len(s) = Cardinality(UnitsOf(project))
    /\ \A u \in UnitsOf(project) :
        Cardinality({k \in DOMAIN s : s[k].unit_id = u}) = 1
    /\ \A k \in DOMAIN s : s[k].actual_cost = ActualCost(purchases, s[k].unit_id)

\* C7: get_unit_costs(project) returns exactly one row per unit of the
\* project, each with actual_cost = the sum of total_cost over the purchases
\* with that unit_id, 0 for a unit without purchase, and the empty sequence
\* for a project without units; the tab shows what was returned.
C7_UnitCosts ==
    /\ [][UnitCostsReturned =>
            UnitCostRows(report'.unitCostData[1], report.project)]_vars
    /\ [](report.phase = "done" => unitCosts = report.unitCostData[1])

\* the report of a project shows a unit with two purchases, a unit with
\* none, and no unit of another project
C7_Witness ==
    /\ report.phase = "done" /\ report.project = "P1"
    /\ Len(unitCosts) = 2
    /\ Len(purchases) = 2
    /\ \E k \in DOMAIN unitCosts :
        /\ unitCosts[k].actual_cost = 27
        /\ Len(SelectSeq(purchases, LAMBDA r : r.unit_id = unitCosts[k].unit_id)) = 2
    /\ \E k \in DOMAIN unitCosts : unitCosts[k].actual_cost = 0

\* the rows get_unit_costs has returned to the tab
ReturnedUnitCosts == IF report.unitCostData = <<>> THEN <<>> ELSE report.unitCostData[1]

\* C8: in every unit-cost row cost_percentage = round(actual_cost / budget
\* * 100, 2) when budget > 0, and 0 when budget = 0 whatever actual_cost is.
C8_CostPercentage ==
    \A k \in DOMAIN ReturnedUnitCosts :
        LET row == ReturnedUnitCosts[k] IN
        /\ row.budget > 0 =>
            RoundedHalfUp(row.cost_percentage, row.actual_cost * 10000, row.budget)
        /\ row.budget = 0 => row.cost_percentage = 0

\* 0.20 spent of a budget of 0.30 is shown as 66.67 percent, and a unit with
\* budget 0 and a purchase as 0 percent
C8_Witness ==
    /\ report.phase = "done"
    /\ \E k \in DOMAIN unitCosts :
        /\ unitCosts[k].budget = 30 /\ unitCosts[k].actual_cost = 20
        /\ unitCosts[k].cost_percentage = 6667
    /\ \E k \in DOMAIN unitCosts :
        /\ unitCosts[k].budget = 0 /\ unitCosts[k].actual_cost > 0
        /\ unitCosts[k].cost_percentage = 0

\* s has one row per category among the purchases of the project, with sum,
\* count and rounded average of their total_cost
CategoryRows(s, project) ==
    LET mine == PurchasesOf(project) IN
    /\ {s[k].category : k \in DOMAIN s} = {mine[i].category : i \in DOMAIN mine}
    /\ Len(s) = Cardinality({mine[i].category : i \in DOMAIN mine})
    /\ \A k \in DOMAIN s :
        LET group == InCategory(mine, s[k].category) IN
        /\ s[k].total_spent = SumCost(group)
        /\ s[k].purchase_count = Len(group)
        /\ RoundedHalfUp(s[k].average_purchase, SumCost(group), Len(group))

\* C9: get_category_spending(project) returns exactly one row per category
\* that occurs in a purchase of the project, with total_spent = sum of
\* total_cost, purchase_count = their number and average_purchase =
\* round(total_spent / purchase_count, 2); a category no purchase uses has no
\* row, a project without purchases gives the empty sequence.
C9_CategorySpending ==
    /\ [][CategorySpendingReturned =>
            CategoryRows(report'.categorySpendingData[1], report.project)]_vars
    /\ [](report.phase = "done" => categorySpending = report.categorySpendingData[1])

\* two purchases of 0.07 and 0.20 in one category are reported with total
\* 0.27, count 2 and average 0.14, and the unused category is not reported
C9_Witness ==
    /\ report.phase = "done" /\ report.project = "P1"
    /\ Len(PurchasesOf("P1")) = 2
    /\ Len(categorySpending) = 1
    /\ categorySpending[1].total_spent = 27
    /\ categorySpending[1].purchase_count = 2
    /\ categorySpending[1].average_purchase = 14

ReturnedCategorySpending ==
    IF report.categorySpendingData = <<>> THEN <<>>
    ELSE report.categorySpendingData[1]

\* the position of the first purchase of the project with category c
FirstEncountered(project, c) ==
    CHOOSE i \in DOMAIN PurchasesOf(project) :
        /\ PurchasesOf(project)[i].category = c
        /\ \A j \in 1..(i - 1) : PurchasesOf(project)[j].category # c

\* C10: the rows of get_category_spending are ordered by total_spent
\* descending, and rows with equal total_spent in the order in which their
\* categories were first encountered among the purchases.
C10_StableTieOrder ==
    \A i, j \in DOMAIN ReturnedCategorySpending :
        LET a == ReturnedCategorySpending[i]
            b == ReturnedCategorySpending[j] IN
        i < j =>
            \/ a.total_spent > b.total_spent
            \/ /\ a.total_spent = b.total_spent
               /\ FirstEncountered(report.project, a.category)
                    < FirstEncountered(report.project, b.category)

\* the purchases with a unit, and those of a project without one
Assigned(rows) == SelectSeq(rows, LAMBDA r : r.unit_id # NULL)
General(rows) == SelectSeq(rows, LAMBDA r : r.unit_id = NULL)

\* C11: a purchase with no unit reference adds nothing to the actual_cost of
\* any unit in the unit cost view, and is counted in total_spent and
\* purchase_count of its category in the category spending view.
C11_GeneralPurchases ==
    /\ [][UnitCostsReturned =>
            \A k \in DOMAIN report'.unitCostData[1] :
                LET row == report'.unitCostData[1][k] IN
                row.actual_cost = ActualCost(Assigned(purchases), row.unit_id)]_vars
    /\ [][CategorySpendingReturned =>
            LET s == report'.categorySpendingData[1]
                mine == PurchasesOf(report.project) IN
            \A g \in DOMAIN General(mine) :
                \E k \in DOMAIN s :
                    LET with == InCategory(Assigned(mine), s[k].category)
                        without == InCategory(General(mine), s[k].category) IN
                    /\ s[k].category = General(mine)[g].category
                    /\ s[k].purchase_count = Len(with) + Len(without)
                    /\ s[k].total_spent = SumCost(with) + SumCost(without)]_vars

\* the report of a project with one purchase for a unit and one general
\* purchase of the same category: the unit shows the first alone, the
\* category both
C11_Witness ==
    /\ report.phase = "done" /\ report.project = "P1"
    /\ Len(purchases) = 2
    /\ Len(General(PurchasesOf("P1"))) = 1 /\ Len(Assigned(PurchasesOf("P1"))) = 1
    /\ Len(categorySpending) = 1
    /\ categorySpending[1].purchase_count = 2
    /\ categorySpending[1].total_spent = SumCost(purchases)
    /\ \E k \in DOMAIN unitCosts :
        /\ unitCosts[k].actual_cost = SumCost(Assigned(purchases))
        /\ unitCosts[k].actual_cost > 0
    /\ \A k \in DOMAIN unitCosts : unitCosts[k].actual_cost < SumCost(purchases)

\* ------------------------------------------------------ the planner claim
\* the planner row of a category of the project's list
PlannerRow(c) ==
    budgetCategories[CHOOSE i \in DOMAIN budgetCategories : budgetCategories[i].name = c]

\* the purchases that a step has put in front of the in-memory list
AddedPurchases == SubSeq(purchasesState', 1, Len(purchasesState') - Len(purchasesState))

\* C12: for each category of the project's list the planner gives
\* budget_amount = total_budget * fraction, with fraction 0.15 for Bathroom
\* and Kitchen, 0.12 for Bedroom, 0.10 for Plumbing and Flooring, 0.08 for
\* Electrical and 0.05 for every other name; spent_amount = the sum of
\* total_cost of the purchases of that category: 0 without purchases, and
\* growing by the total_cost of every purchase added to the category; and
\* remaining = budget_amount - spent_amount, negative when over budget.
C12_Planner ==
    /\ [](/\ Len(budgetCategories) = Len(currentProject.categories)
          /\ \A i \in DOMAIN budgetCategories :
                LET row == budgetCategories[i]
                    T == currentProject.total_budget IN
                /\ row.name = currentProject.categories[i]
                /\ row.name \in {"Bathroom", "Kitchen"} => row.budgetAmount = T * 15
                /\ row.name = "Bedroom" => row.budgetAmount = T * 12
                /\ row.name \in {"Plumbing", "Flooring"} => row.budgetAmount = T * 10
                /\ row.name = "Electrical" => row.budgetAmount = T * 8
                /\ row.name \notin {"Bathroom", "Kitchen", "Bedroom", "Plumbing",
                                    "Flooring", "Electrical"} =>
                        row.budgetAmount = T * 5
                /\ row.remaining + 100 * row.spentAmount = row.budgetAmount
                /\ purchasesState = <<>> => row.spentAmount = 0)
    /\ [][\A i \in DOMAIN budgetCategories :
            budgetCategories'[i].spentAmount - budgetCategories[i].spentAmount
                = SumCost(InCategory(AddedPurchases, budgetCategories[i].name))]_vars

\* a purchase of 1.00 in Kitchen, planned with 0.75: 0.25 over budget, while
\* Bedroom has nothing spent of its 0.60
C12_Witness ==
    /\ PlannerRow("Kitchen").budgetAmount = 7500
    /\ PlannerRow("Kitchen").spentAmount = 100
    /\ PlannerRow("Kitchen").remaining = -2500
    /\ PlannerRow("Bedroom").spentAmount = 0
    /\ PlannerRow("Bedroom").remaining = 6000
    /\ PlannerRow("Other").budgetAmount = 2500

\* ------------------------------------------------------- the badge claim
\* C13: the budget status shown for a unit-cost row depends on
\* cost_percentage only: 'On Track' up to 70, 'Warning' above 70 and up to
\* 90, 'Over Budget' above 90.
C13_BudgetStatus ==
    /\ DOMAIN UnitCostBadges = DOMAIN unitCosts
    /\ \A k \in DOMAIN unitCosts :
        LET pct == unitCosts[k].cost_percentage IN
        /\ UnitCostBadges[k] = "On Track" <=> pct <= 7000
        /\ UnitCostBadges[k] = "Warning" <=> (7000 < pct /\ pct <= 9000)
        /\ UnitCostBadges[k] = "Over Budget" <=> pct > 9000

\* a unit at exactly 90 percent of its budget is shown with 'Warning' next
\* to a unit with budget 0 shown 'On Track'
C13_Witness ==
    /\ report.phase = "done"
    /\ \E k \in DOMAIN unitCosts :
        unitCosts[k].cost_percentage = 9000 /\ UnitCostBadges[k] = "Warning"
    /\ \E k \in DOMAIN unitCosts :
        unitCosts[k].cost_percentage = 0 /\ UnitCostBadges[k] = "On Track"

\* ------------------------------------------------ the referential claims
\* the rows of a table, as a set
RowsOf(rows) == {rows[i] : i \in DOMAIN rows}
\* the partners and the units a step deleted
GonePartners == Ids(partners) \ Ids(partners')
GoneUnits == Ids(units) \ Ids(units')
\* the row as it must be after that step: the references to deleted rows
\* absent, every other field as it was
Dereferenced(row) ==
    [f \in DOMAIN row |->
        IF f = "partner_id" /\ row[f] \in GonePartners THEN NULL
        ELSE IF f = "unit_id" /\ row[f] \in GoneUnits THEN NULL
        ELSE row[f]]

C15_ProjectExists ==
    /\ \A i \in DOMAIN partners : partners[i].project_id \in Ids(projects)
    /\ \A i \in DOMAIN units : units[i].project_id \in Ids(projects)
    /\ \A i \in DOMAIN purchases : purchases[i].project_id \in Ids(projects)

\* C15 witness: a project was deleted while another project, with a unit and a
\* purchase of its own, stays.
C15_Witness ==
    /\ stmt.op = "delete" /\ stmt.table = "projects"
    /\ Len(projects) = 1
    /\ units # <<>>
    /\ purchases # <<>>
    /\ partners = <<>>

\* ---------------------------------------------------- the isolation claim
\* the user's own rows: what the four SELECTs return to that user
Visible(user) ==
    [projects |-> SelectSeq(projects, LAMBDA r : ProjectPolicy(user, r)),
     partners |-> SelectSeq(partners, LAMBDA r : ChildPolicy(user, r)),
     units |-> SelectSeq(units, LAMBDA r : ChildPolicy(user, r)),
     purchases |-> SelectSeq(purchases, LAMBDA r : ChildPolicy(user, r))]
\* the rows of the user's projects, before or after the step
OwnProjects(user) ==
    {r.id : r \in {q \in RowsOf(projects) \cup RowsOf(projects') : q.user_id = user}}
\* the rows a step created, changed or deleted
Touched(before, after) ==
    (RowsOf(before) \ RowsOf(after)) \cup (RowsOf(after) \ RowsOf(before))

\* C16: the user who runs a statement reads, creates, changes and deletes
\* rows of own projects only, and the statement changes nothing of what any
\* other user reads from the four tables.
C16_Isolation ==
    [][LET user == stmt'.user IN
        /\ stmt'.op = "select" =>
            \A i \in DOMAIN stmt'.rows :
                IF stmt'.table = "projects" THEN stmt'.rows[i].user_id = user
                ELSE stmt'.rows[i].project_id \in OwnProjects(user)
        /\ \A r \in Touched(projects, projects') : r.user_id = user
        /\ \A r \in Touched(partners, partners') \cup Touched(units, units')
                    \cup Touched(purchases, purchases') :
                r.project_id \in OwnProjects(user)
        /\ \A other \in Users \ {user} : Visible(other)' = Visible(other)]_vars

\* ------------------------------------------------- the atomicity claim
\* the createPurchase calls of the submission that resolved
OkCalls == {i \in DOMAIN sub.status : sub.status[i] = "ok"}
\* the row the i-th call returned is in the table, is in the in-memory list
InTable(i) == \E j \in DOMAIN purchases : purchases[j] = sub.rows[i]
InMemory(i) == \E j \in DOMAIN purchasesState : purchasesState[j] = sub.rows[i]

\* C17: for an even distribution over N units, when handleAddPurchase has
\* succeeded all N rows are in the table and all N are in the in-memory list;
\* until then, and when it has reported a failure, none of the N is in the
\* in-memory list; the rows whose insert resolved are in the table whatever
\* the outcome (nothing is rolled back).
C17_AllOrReportedFailure ==
    (Accepted /\ EvenSplit) =>
        /\ sub.phase \in {"running", "done", "failed"}
        /\ \A i \in OkCalls : InTable(i)
        /\ sub.phase = "done" =>
            /\ OkCalls = 1..ReqN
            /\ SubSeq(purchasesState, 1, ReqN) = sub.rows
        /\ sub.phase # "done" => \A i \in OkCalls : ~InMemory(i)
        /\ (sub.phase = "failed") = (\E i \in DOMAIN sub.status : sub.status[i] = "error")

\* C17 witness: an even distribution over three units was reported as failed
\* after one insert threw; the two other inserts went through and their rows
\* stay in the table, none is in the in-memory list.
C17_Witness ==
    /\ Accepted /\ EvenSplit /\ Settled
    /\ sub.phase = "failed"
    /\ ReqN = 3
    /\ Cardinality(OkCalls) = 2
    /\ Len(purchases) = 2
    /\ purchasesState = <<>>

\* ------------------------------------------------- the sync claim
\* C18: the sync function answers success: true only when no call to the
\* spreadsheet API (token exchange, read or creation of a sheet, clear,
\* write) has failed; with a failed call it answers with an error.
C18_FailureSurfaced ==
    sync.response # NULL /\ sync.failed # {} => sync.response = "error"

\* ------------------------------------------------- the idempotence claim
\* the projects of the store
StoredProjects == Ids(projects)
\* a step in which a report function returns changes no stored row (this
\* part of C19 holds in SpecDB)
ReadOnlyCalls ==
    [][(report' # report /\ report'.phase # "closed" /\ report.phase # "closed") =>
        UNCHANGED <<projects, partners, units, purchases>>]_vars

\* C19: get_unit_costs and get_category_spending, called twice on unchanged
\* units and purchases, return identical row sequences (same rows, same
\* values, same order): on every store each function has one admissible
\* result.
C19_Idempotent ==
    \A p \in StoredProjects :
        /\ \A a, b \in get_unit_costs(p) : a = b
        /\ \A a, b \in get_category_spending(p) : a = b

\* ------------------------------------------------- the export claim
\* C20: for the units and purchases of the store, the Units sheet of the
\* export shows for every unit the actual cost and the cost percentage
\* (2 decimals, 0 for budget 0) of get_unit_costs, and the category breakdown
\* shows for every category the total_spent of get_category_spending.
C20_ExportMatchesReports ==
    workbook.written =>
        /\ \A rows \in get_unit_costs(currentProject.id) :
            /\ Len(rows) = Len(workbook.Units)
            /\ \A i \in DOMAIN rows : \E k \in DOMAIN workbook.Units :
                /\ workbook.Units[k].id = rows[i].unit_id
                /\ workbook.Units[k].actualCost = JsNumber(rows[i].actual_cost, 100)
                /\ workbook.Units[k].costPercentage = rows[i].cost_percentage
        /\ \A rows \in get_category_spending(currentProject.id) :
            /\ Len(rows) = Len(workbook.Summary)
            /\ \A i \in DOMAIN rows : \E k \in DOMAIN workbook.Summary :
                /\ workbook.Summary[k].category = rows[i].category
                /\ workbook.Summary[k].amount = JsNumber(rows[i].total_spent, 100)

\* ------------------------------------------------- the edit claim
\* C21: an updatePurchase whose updates name only quantity and/or unit_price
\* leaves total_cost of the purchase as it was stored; besides the fields
\* named only updated_at changes, and no other row changes.
C21_TotalCostKept ==
    [][(stmt'.op = "updatePurchase"
        /\ DOMAIN stmt'.updates \subseteq {"quantity", "unit_price"}) =>
        \A i \in DOMAIN purchases :
            IF purchases[i].id = stmt'.rows[1].id
            THEN /\ purchases'[i].total_cost = purchases[i].total_cost
                 /\ \A f \in DOMAIN purchases[i] :
                        purchases'[i][f] # purchases[i][f] =>
                            f \in DOMAIN stmt'.updates \cup {"updated_at"}
                 /\ purchases'[i].updated_at # purchases[i].updated_at
            ELSE purchases'[i] = purchases[i]]_vars

\* C21 witness: quantity and unit_price of purchase 1 were updated to 2 and
\* 0.05; its total_cost is still the 0.07 it was created with.
C21_Witness ==
    /\ stmt.op = "updatePurchase"
    /\ DOMAIN stmt.updates = {"quantity", "unit_price"}
    /\ \E i \in DOMAIN purchases :
        /\ purchases[i].id = 1
        /\ purchases[i].quantity = 2000
        /\ purchases[i].unit_price = 5
        /\ purchases[i].total_cost = 7
        /\ purchases[i].updated_at > 0

\* ------------------------------------------------- the unit form claim
\* C22: submitting the unit form with no partner selected persists a new
\* unit whose partner_id is absent and appends it to the in-memory unit
\* list.
C22_UnitWithoutPartner ==
    [][(/\ stmt'.table = "units"
        /\ stmt'.op = "insert"
        /\ (stmt'.error \/ stmt'.rows[1].partner_id \notin Ids(partners))) =>
        /\ ~stmt'.error
        /\ Len(units') = Len(units) + 1
        /\ units'[Len(units')].partner_id = NULL
        /\ unitsState' = Append(unitsState, units'[Len(units')])]_vars

\* --------------------------------------------- the settings form claims
\* the labels of the list are non-empty and pairwise distinct
DistinctLabels(categories) ==
    /\ \A i \in DOMAIN categories : categories[i] # ""
    /\ \A i, j \in DOMAIN categories : i # j => categories[i] # categories[j]

\* C23: in the project settings form the category list consists of
\* pairwise distinct non-empty labels after any sequence of add, edit and
\* delete actions, and saving stores exactly that list as the project's
\* categories.
C23_DistinctLabelsSaved ==
    /\ [](DistinctLabels(settings.categories) /\ DistinctLabels(currentProject.categories))
    /\ [][(stmt' # stmt /\ stmt'.op = "update" /\ stmt'.table = "projects"
            /\ ~stmt'.error) =>
            /\ stmt'.rows[1].categories = settings.categories
            /\ currentProject' = stmt'.rows[1]
            /\ \E i \in DOMAIN projects' : projects'[i] = stmt'.rows[1]]_vars

\* a list that was edited by an add, a rename and a delete has been saved
C23_Witness ==
    /\ stmt.op = "update" /\ ~stmt.error
    /\ currentProject.categories = <<"Tile", "Kitchen">>
    /\ projects[1].categories = <<"Tile", "Kitchen">>

\* the sum of spentAmount over the rows of the planner
RECURSIVE SumSpent(_)
SumSpent(rows) ==
    IF rows = <<>> THEN 0 ELSE Head(rows).spentAmount + SumSpent(Tail(rows))

\* C29: after any sequence of purchase additions and category edits every
\* purchase of the project is counted in exactly one Budget Category Planner
\* row: the sum of spent_amount over the planner rows equals the sum of
\* total_cost over the purchases of the project.
C29_EveryPurchaseCounted ==
    /\ \A k \in DOMAIN purchasesState :
        Cardinality({i \in DOMAIN budgetCategories :
            budgetCategories[i].name = purchasesState[k].category}) = 1
    /\ SumSpent(budgetCategories) = Reduce(purchasesState, 0)

\* ------------------------------------------------ the server-side reads
\* C24: get_unit_costs, get_category_spending and the sync function return
\* or export data of a project only to a caller who owns it; called for a
\* project of another user they disclose nothing derived from its units or
\* purchases.
C24_OwnerOnlyReads ==
    [][(/\ stmt'.op \in {"get_unit_costs", "get_category_spending",
                         "sync-google-sheets"}
        /\ ~OwnsProject(stmt'.user, stmt'.project)) => stmt'.rows = <<>>]_vars

\* ------------------------------------------- the two views of a project
\* the sum of a column over the rows a report function returned
RECURSIVE SumColumn(_, _)
SumColumn(rows, column) ==
    IF rows = <<>> THEN 0 ELSE Head(rows)[column] + SumColumn(Tail(rows), column)

\* the purchases of the project that have no unit
WithoutUnit(project) ==
    SelectSeq(purchases, LAMBDA r : r.project_id = project /\ r.unit_id = NULL)

\* C25: for every project the sum of actual_cost over get_unit_costs plus the
\* total_cost of the project's purchases without a unit equals the sum of
\* total_spent over get_category_spending: each purchase of the project is
\* counted once in each view, and no purchase of another project is counted.
C25_ViewsAgree ==
    \A project \in ProjectPool :
        \A unitRows \in get_unit_costs(project),
           categoryRows \in get_category_spending(project) :
            SumColumn(unitRows, "actual_cost")
                + SumColumn(WithoutUnit(project), "total_cost")
            = SumColumn(categoryRows, "total_spent")

\* ---------------------------------------------------- the reload claims
\* no run of loadProjectData is under way, none has failed
LoadsSettled == \A k \in DOMAIN loads : loads[k].phase \in {"idle", "done"}

\* C26: the in-memory purchase list never holds a purchase id twice and, once
\* all pending requests have completed, holds every persisted purchase of the
\* project, however handleAddPurchase and a reload interleave.
C26_ListMatchesStore ==
    /\ \A i, j \in DOMAIN purchasesState :
        i # j => purchasesState[i].id # purchasesState[j].id
    /\ (LoadsSettled /\ sub.phase \in {"idle", "done"}) =>
        \A i \in DOMAIN purchases :
            purchases[i].project_id = currentProject.id =>
                purchases[i].id \in Ids(purchasesState)

\* C27: for a user without a project, opening the tracker creates exactly
\* one default project, also when loadProjectData is started more than once.
C27_OneDefaultProject ==
    LET mine == SelectSeq(projects, LAMBDA r : r.user_id = CurrentUser) IN
    /\ Len(mine) <= 1
    /\ (\E k \in DOMAIN loads : loads[k].phase = "done") => Len(mine) = 1

\* ------------------------------------------------ the unit selection claim
\* C28: whenever 'Apply to all units' is checked at submit time, the
\* submitted target list is exactly the set of all units the project has at
\* that time, whatever the form was opened, dismissed and reopened and units
\* were added in between; and the units field of the form always equals the
\* checkbox selection.
C28_AllUnitsSubmitted ==
    [][/\ purchaseForm'.units = purchaseForm'.selectedUnits
       /\ (submits' = submits + 1 /\ purchaseForm.selectAllUnits) =>
            /\ {sub'.req.units[i] : i \in DOMAIN sub'.req.units} = Ids(units)
            /\ Len(sub'.req.units) = Cardinality(Ids(units))]_vars

\* ------------------------------------------- the dashboard percentages
\* C30: every budget-usage percentage of the dashboard is a defined finite
\* number, and is 0 when its budget is 0: the header's share of the total
\* budget, the usage of each unit, and the analytics budget-used figure.
C30_FinitePercentages ==
    /\ statsTrend.kind = "finite"
    /\ currentProject.total_budget = 0 => statsTrend = Finite(0, 1)
    /\ \A i \in DOMAIN unitsState :
        LET usage == getBudgetUsagePercentage(actualCost(unitsState[i]),
                                              unitsState[i].budget) IN
        /\ usage.kind = "finite"
        /\ unitsState[i].budget = 0 => usage = Finite(0, 1)
    /\ \A inRange \in BOOLEAN :
        /\ budgetUsed(inRange).kind = "finite"
        /\ currentProject.total_budget = 0 => budgetUsed(inRange) = Finite(0, 1)

====
